---- MODULE Spec2Model ----
(***************************************************************************)
(* Model of crawl4ai-service/semantic_analysis.py: the RateLimiter and the *)
(* SemanticAnalysisService (initialize, encode_texts, calculate_similarity,*)
(* analyze_content_relevance, _generate_recommendations).                  *)
(*                                                                         *)
(* Numbers.  Similarities, confidences and scores are floats in the code.  *)
(* The model keeps them exact as integers: a similarity or a confidence is *)
(* counted in hundredths (40 is 0.4), a rounded score in hundredths of a   *)
(* point (3333 is 33.33).  The embedding vectors of the stub Embedder have *)
(* integer norms (5 or 10), so every cosine is an exact number of          *)
(* hundredths.                                                             *)
(*                                                                         *)
(* Texts.  A string is kept run-length encoded: `pre` blanks, then `n`     *)
(* copies of the letter `sym`, then `post` blanks.  strip(), len() and     *)
(* slicing are computed on that form with the code's own limits (10, 50,   *)
(* 200, 1000).  A value that is not a string has sym = "None".             *)
(***************************************************************************)
EXTENDS Integers, Sequences, FiniteSets, TLC

VARIABLES
    now,        \* the wall clock read by time.time()
    calls,      \* RateLimiter.calls: identifier -> list of call timestamps
    model,      \* SemanticAnalysisService.model: "None" or "loaded"
    loading,    \* SemanticAnalysisService._loading
    cache,      \* SemanticAnalysisService._cache, in insertion order
    tie,        \* how this build's np.argsort orders equal scores
    pending,    \* the request a freshly constructed service is about to get
    last,       \* the last analyze_content_relevance call and its report
    rep,        \* how that call compares with the call before it
    encLast,    \* the last encode_texts call and its outcome
    encRep,     \* how that call compares with the encode_texts call before it
    rlLast,     \* the last direct is_allowed call and its answer
    admitted,   \* every timestamp is_allowed ever recorded, per identifier
    ins,        \* the last cache insertion: the keys before and after it
    rec,        \* a call of _generate_recommendations: its arguments and result
    tasks,      \* the coroutines running on the event loop, one record each
    lock,       \* RateLimiter.lock: the thread that holds it, 0 when free
    threads     \* the threads inside is_allowed, one record each

vars == <<now, calls, model, loading, cache, tie, pending, last, rep,
          encLast, encRep, rlLast, admitted, ins, rec, tasks, lock, threads>>

----------------------------------------------------------------------------
(* Bounds of the model *)

MaxTime == 4            \* the clock runs 0..MaxTime
max_calls == 2          \* SEMANTIC_MAX_CALLS, scaled down
window == 2             \* SEMANTIC_WINDOW, scaled down
CacheCapacity == 2      \* the cache size that triggers eviction, scaled down
EvictCount == 1         \* how many oldest entries an eviction drops, scaled down
MaxQ == 3               \* longest query list given to a fresh service
MaxC == 2               \* longest chunk list given to a fresh service
MaxTasks == 3           \* coroutines that run concurrently on the event loop
MaxVerdicts == 4        \* longest verdict list given to _generate_recommendations
MaxThreads == 2         \* threads that call is_allowed concurrently
MaxThreadTime == 2      \* the clock runs 0..MaxThreadTime while they do

(* Program constants *)
retry_count == 3        \* initialize(retry_count = 3)
TextLimit == 1000       \* text.strip()[:1000]
MinChunkLen == 10       \* len(text.strip()) > 10
PreviewLen == 200       \* text[:200]
EllipsisLen == 3        \* len('...')
TopK == 3               \* np.argsort(...)[-3:]
MinScore == 10          \* query_similarities[idx] > 0.1
AnsweredAbove == 40     \* max_similarity > 0.4
ConfidenceCap == 100    \* min(max_similarity * 2, 1.0)
HashBase == 8009        \* multiplier of the tuple hash
HashMod == 131071       \* the hash's range

Clients == {"c1", "c2"}

Min(a, b) == IF a <= b THEN a ELSE b
Max(a, b) == IF a >= b THEN a ELSE b

----------------------------------------------------------------------------
(* Strings *)

Str(pre, sym, n, post) == [pre |-> pre, sym |-> sym, n |-> n, post |-> post]
NotAString == Str(0, "None", 0, 0)
EmptyStr == Str(0, "", 0, 0)
Blank(k) == Str(k, "", 0, 0)

isinstance_str(t) == t.sym # "None"

len(t) == t.pre + t.n + t.post

strip(t) == IF t.n = 0 THEN EmptyStr ELSE Str(0, t.sym, t.n, 0)

\* t[:k]
Slice(t, k) ==
    LET p == Min(t.pre, k)
        m == Min(t.n, k - p)
        q == Min(t.post, k - p - m)
    IN  IF m = 0 THEN Blank(p + q) ELSE Str(p, t.sym, m, q)

----------------------------------------------------------------------------
(* RateLimiter *)

\* is_allowed admitting while the count is at the limit
is_allowed_off_by_one(cs, identifier, t) ==
    LET kept == SelectSeq(cs[identifier], LAMBDA call_time : t - call_time < window)
    IN  IF Len(kept) > max_calls
        THEN [calls |-> [cs EXCEPT ![identifier] = kept], allowed |-> FALSE]
        ELSE [calls |-> [cs EXCEPT ![identifier] = Append(kept, t)], allowed |-> TRUE]

\* is_allowed keeping a call that is exactly one window old
is_allowed_keeps_boundary(cs, identifier, t) ==
    LET kept == SelectSeq(cs[identifier], LAMBDA call_time : t - call_time <= window)
    IN  IF Len(kept) >= max_calls
        THEN [calls |-> [cs EXCEPT ![identifier] = kept], allowed |-> FALSE]
        ELSE [calls |-> [cs EXCEPT ![identifier] = Append(kept, t)], allowed |-> TRUE]

\* is_allowed taking a slot only when the window was empty
is_allowed_records_first(cs, identifier, t) ==
    LET kept == SelectSeq(cs[identifier], LAMBDA call_time : t - call_time < window)
    IN  IF Len(kept) >= max_calls
        THEN [calls |-> [cs EXCEPT ![identifier] = kept], allowed |-> FALSE]
        ELSE [calls |-> [cs EXCEPT ![identifier] =
                            IF Len(kept) = 0 THEN Append(kept, t) ELSE kept],
              allowed |-> TRUE]

\* is_allowed appending the timestamp of a denied call too
is_allowed_records_denied(cs, identifier, t) ==
    LET kept == SelectSeq(cs[identifier], LAMBDA call_time : t - call_time < window)
    IN  [calls |-> [cs EXCEPT ![identifier] = Append(kept, t)],
         allowed |-> Len(kept) < max_calls]

\* is_allowed holding every identifier to one common limit
is_allowed_shared_limit(cs, identifier, t) ==
    LET kept == SelectSeq(cs[identifier], LAMBDA call_time : t - call_time < window)
        recent == {p \in UNION {{<<o, i>> : i \in 1..Len(cs[o])} : o \in DOMAIN cs} :
                        t - cs[p[1]][p[2]] < window}
    IN  IF Cardinality(recent) >= max_calls
        THEN [calls |-> [cs EXCEPT ![identifier] = kept], allowed |-> FALSE]
        ELSE [calls |-> [cs EXCEPT ![identifier] = Append(kept, t)], allowed |-> TRUE]

\* is_allowed(identifier) at clock value t, on the table cs
is_allowed(cs, identifier, t) ==
    LET kept == SelectSeq(cs[identifier], LAMBDA call_time : t - call_time < window)
    IN  IF Len(kept) >= max_calls
        THEN [calls |-> [cs EXCEPT ![identifier] = kept], allowed |-> FALSE]
        ELSE [calls |-> [cs EXCEPT ![identifier] = Append(kept, t)], allowed |-> TRUE]

----------------------------------------------------------------------------
(* The Embedder (SentenceTransformer.encode), as a deterministic stub *)

Symbols == <<"x", "y", "z", "w", "v", "t">>

SymIndex(s) == CHOOSE i \in 1..Len(Symbols) : Symbols[i] = s

EmbedVec(s) ==
    CASE s.sym = "x" -> <<5, 0, 0, 0>>
      [] s.sym = "y" -> <<2, 4, 2, 1>>
      [] s.sym = "z" -> <<-5, 0, 0, 0>>
      [] s.sym = "w" -> <<0, 0, 0, 5>>
      [] s.sym = "v" -> <<3, 4, 0, 0>>
      [] OTHER       -> <<1, 9, 3, 3>>

model_encode(cleaned_texts) == [i \in 1..Len(cleaned_texts) |-> EmbedVec(cleaned_texts[i])]

----------------------------------------------------------------------------
(* hash(tuple(cleaned_texts)): an order-sensitive polynomial hash.  Python's *)
(* hash has 64 bits; this one is narrower.  Like Python's it is not        *)
(* injective: two different batches can have one hash (CollidingBatch).    *)

StrCode(s) == SymIndex(s.sym) * (TextLimit + 1) + s.n

RECURSIVE HashFrom(_, _, _)
HashFrom(h, texts, i) ==
    IF i > Len(texts) THEN h
    ELSE HashFrom((h * HashBase + StrCode(texts[i]) + 1) % HashMod, texts, i + 1)

hash(texts) == HashFrom(Len(texts) + 1, texts, 1)

----------------------------------------------------------------------------
(* SemanticAnalysisService.initialize, run to completion by one caller.    *)
(* loads[k] says whether the k-th load attempt succeeds.                   *)

FirstOk(loads) ==
    IF \E k \in 1..retry_count : loads[k]
    THEN CHOOSE k \in 1..retry_count : loads[k] /\ \A j \in 1..(k - 1) : ~loads[j]
    ELSE 0

initialize(m, loads) ==
    IF m # "None"
    THEN [model |-> m, raised |-> FALSE, attempts |-> 0]
    ELSE IF FirstOk(loads) # 0
         THEN [model |-> "loaded", raised |-> FALSE, attempts |-> FirstOk(loads)]
         ELSE [model |-> "None", raised |-> TRUE, attempts |-> retry_count]

----------------------------------------------------------------------------
(* The cache: a dict, kept as the sequence of its items in insertion order *)

CacheHas(c, key) == \E i \in 1..Len(c) : c[i].key = key

\* a lookup that ignores the key
CacheGet_first(c, key) == c[1].value

CacheGet(c, key) == c[CHOOSE i \in 1..Len(c) : c[i].key = key].value

\* an eviction that drops the newest entries
CachePut_newest(c, key, value) ==
    LET set == IF CacheHas(c, key)
               THEN [i \in 1..Len(c) |->
                        IF c[i].key = key THEN [key |-> key, value |-> value] ELSE c[i]]
               ELSE Append(c, [key |-> key, value |-> value])
    IN  IF Len(set) > CacheCapacity
        THEN SubSeq(set, 1, Len(set) - Min(EvictCount, Len(set)))
        ELSE set

\* self._cache[cache_key] = embeddings, then the size check and the eviction
CachePut(c, key, value) ==
    LET set == IF CacheHas(c, key)
               THEN [i \in 1..Len(c) |->
                        IF c[i].key = key THEN [key |-> key, value |-> value] ELSE c[i]]
               ELSE Append(c, [key |-> key, value |-> value])
    IN  IF Len(set) > CacheCapacity
        THEN SubSeq(set, Min(EvictCount, Len(set)) + 1, Len(set))
        ELSE set

----------------------------------------------------------------------------
(* SemanticAnalysisService.encode_texts, run to completion.                *)
(* st = [calls, model, cache] is the service state it starts from, t the   *)
(* clock value is_allowed reads, env = [loads, encode_ok] what the model   *)
(* load attempts and the Embedder do in this call.                         *)

RateLimitMsg == "Rate limit exceeded. Please try again later."
LoadErrorMsg == "model load failed"
\* f"Embedding generation failed: {str(e)}"
EncodeErrorPrefix == "Embedding generation failed: "
EncodeErrorMsg == EncodeErrorPrefix \o "encode failed"

Keep(text) == isinstance_str(text) /\ len(strip(text)) > 0

CleanTexts(texts) ==
    LET kept == SelectSeq(texts, Keep)
    IN  [i \in 1..Len(kept) |-> Slice(strip(kept[i]), TextLimit)]

EncOut(st, raised, error, value, invoked, looked, cleaned) ==
    [st |-> st, raised |-> raised, error |-> error, value |-> value,
     invoked |-> invoked, looked |-> looked, cleaned |-> cleaned]

\* encode_texts never consulting the cache
encode_cleaned_nocache(st, cleaned_texts, use_cache, env) ==
    IF ~env.encode_ok
    THEN EncOut(st, TRUE, EncodeErrorMsg, <<>>, TRUE, use_cache, cleaned_texts)
    ELSE EncOut(st, FALSE, "", model_encode(cleaned_texts), TRUE, use_cache, cleaned_texts)

\* lines 120-155: the cache lookup, the Embedder call, the cache insertion
encode_cleaned(st, cleaned_texts, use_cache, env) ==
    LET cache_key == hash(cleaned_texts)
    IN  IF use_cache /\ CacheHas(st.cache, cache_key)
        THEN EncOut(st, FALSE, "", CacheGet(st.cache, cache_key), FALSE, TRUE, cleaned_texts)
        ELSE IF ~env.encode_ok
        THEN EncOut(st, TRUE, EncodeErrorMsg, <<>>, TRUE, use_cache, cleaned_texts)
        ELSE LET embeddings == model_encode(cleaned_texts)
                 st2 == IF use_cache
                        THEN [st EXCEPT !.cache = CachePut(st.cache, cache_key, embeddings)]
                        ELSE st
             IN  EncOut(st2, FALSE, "", embeddings, TRUE, use_cache, cleaned_texts)

\* encode_texts without the check of line 117
encode_texts_no_empty_check(st, texts, use_cache, client_id, t, env) ==
    LET rl == is_allowed(st.calls, client_id, t)
        st1 == [st EXCEPT !.calls = rl.calls]
        ini == initialize(st1.model, env.loads)
        st2 == [st1 EXCEPT !.model = ini.model]
        cleaned_texts == CleanTexts(texts)
    IN  IF ~rl.allowed THEN EncOut(st1, TRUE, RateLimitMsg, <<>>, FALSE, FALSE, <<>>)
        ELSE IF ini.raised THEN EncOut(st2, TRUE, LoadErrorMsg, <<>>, FALSE, FALSE, <<>>)
        ELSE IF Len(texts) = 0 THEN EncOut(st2, FALSE, "", <<>>, FALSE, FALSE, <<>>)
        ELSE encode_cleaned(st2, cleaned_texts, use_cache, env)

encode_texts(st, texts, use_cache, client_id, t, env) ==
    LET rl == is_allowed(st.calls, client_id, t)
        st1 == [st EXCEPT !.calls = rl.calls]
        ini == initialize(st1.model, env.loads)
        st2 == [st1 EXCEPT !.model = ini.model]
        cleaned_texts == CleanTexts(texts)
    IN  IF ~rl.allowed THEN EncOut(st1, TRUE, RateLimitMsg, <<>>, FALSE, FALSE, <<>>)
        ELSE IF ini.raised THEN EncOut(st2, TRUE, LoadErrorMsg, <<>>, FALSE, FALSE, <<>>)
        ELSE IF Len(texts) = 0 THEN EncOut(st2, FALSE, "", <<>>, FALSE, FALSE, <<>>)
        ELSE IF Len(cleaned_texts) = 0 THEN EncOut(st2, FALSE, "", <<>>, FALSE, FALSE, <<>>)
        ELSE encode_cleaned(st2, cleaned_texts, use_cache, env)

----------------------------------------------------------------------------
(* calculate_similarity: sklearn's cosine_similarity, in hundredths *)

Dot(a, b) == a[1] * b[1] + a[2] * b[2] + a[3] * b[3] + a[4] * b[4]

Norm(a) == CHOOSE r \in 0..10 : r * r = Dot(a, a)

Cosine(a, b) == (100 * Dot(a, b)) \div (Norm(a) * Norm(b))

calculate_similarity(query_embeddings, content_embeddings) ==
    IF Len(query_embeddings) = 0 \/ Len(content_embeddings) = 0
    THEN <<>>
    ELSE [i \in 1..Len(query_embeddings) |->
            [j \in 1..Len(content_embeddings) |->
                Cosine(query_embeddings[i], content_embeddings[j])]]

----------------------------------------------------------------------------
(* Content chunks and their metadata *)

Chunk(text, type) == [dict |-> TRUE, has_text |-> TRUE, text |-> text, type |-> type]
ChunkNoType(text) == [dict |-> TRUE, has_text |-> TRUE, text |-> text, type |-> "absent"]
ChunkNoText == [dict |-> TRUE, has_text |-> FALSE, text |-> NotAString, type |-> "absent"]
NotADict == [dict |-> FALSE, has_text |-> FALSE, text |-> NotAString, type |-> "absent"]

\* a preview that is the whole text
Preview_whole(text) == [text |-> text, ellipsis |-> FALSE]

\* text[:200] + '...' if len(text) > 200 else text
Preview(text) ==
    IF len(text) > PreviewLen
    THEN [text |-> Slice(text, PreviewLen), ellipsis |-> TRUE]
    ELSE [text |-> text, ellipsis |-> FALSE]

NoPreview == [text |-> EmptyStr, ellipsis |-> FALSE]

\* a length filter on the untrimmed text
Meaningful_untrimmed(chunk) ==
    /\ chunk.dict
    /\ chunk.has_text
    /\ isinstance_str(chunk.text)
    /\ len(chunk.text) > MinChunkLen

Meaningful(chunk) ==
    /\ chunk.dict
    /\ chunk.has_text
    /\ isinstance_str(chunk.text)
    /\ len(strip(chunk.text)) > MinChunkLen

\* lines 188-201: the texts to encode and what is reported about each
ContentTexts(content_chunks) ==
    LET kept == SelectSeq(content_chunks, Meaningful)
    IN  [i \in 1..Len(kept) |-> strip(kept[i].text)]

ContentMetadata(content_chunks) ==
    LET kept == SelectSeq(content_chunks, Meaningful)
    IN  [i \in 1..Len(kept) |->
            [type |-> IF kept[i].type = "absent" THEN "content" ELSE kept[i].type,
             original_text |-> Preview(kept[i].text),
             length |-> len(kept[i].text)]]

----------------------------------------------------------------------------
(* One row of the similarity matrix: np.max, np.argmax, np.argsort *)

RowMax(row) == CHOOSE v \in {row[j] : j \in 1..Len(row)} : \A j \in 1..Len(row) : row[j] <= v

ArgMax(row) == CHOOSE i \in 1..Len(row) :
                  row[i] = RowMax(row) /\ \A j \in 1..(i - 1) : row[j] # RowMax(row)

\* np.argsort sorts ascending with an unstable sort: the order of equal scores
\* is the build's, `policy` says which
SortsBefore(row, policy, i, j) ==
    \/ row[i] < row[j]
    \/ row[i] = row[j] /\ (IF policy = "ascending" THEN i < j ELSE i > j)

ArgSort(row, policy) ==
    [k \in 1..Len(row) |->
        CHOOSE i \in 1..Len(row) :
            Cardinality({j \in 1..Len(row) : SortsBefore(row, policy, j, i)}) = k - 1]

Reverse(s) == [k \in 1..Len(s) |-> s[Len(s) + 1 - k]]

\* the three lowest scores instead of the three highest
TopIndices_lowest(row, policy) ==
    LET sorted == ArgSort(row, policy)
    IN  Reverse(SubSeq(sorted, 1, Min(TopK, Len(row))))

\* np.argsort(query_similarities)[-3:][::-1]
TopIndices(row, policy) ==
    LET sorted == ArgSort(row, policy)
    IN  Reverse(SubSeq(sorted, Max(1, Len(row) - TopK + 1), Len(row)))

TopMatches(row, content_metadata, policy) ==
    LET top_indices == TopIndices(row, policy)
        good == SelectSeq(top_indices, LAMBDA idx : row[idx] > MinScore)
    IN  [k \in 1..Len(good) |->
            [content |-> content_metadata[good[k]].original_text,
             score |-> row[good[k]],
             type |-> content_metadata[good[k]].type]]

\* the threshold taken as inclusive
is_answered_at_least(max_similarity) == max_similarity >= AnsweredAbove

is_answered_of(max_similarity) == max_similarity > AnsweredAbove

\* a confidence that is the similarity itself
confidence_unscaled(max_similarity) == Min(max_similarity, ConfidenceCap)

\* lines 234-261: the verdict of one query
confidence_of(max_similarity) == Min(max_similarity * 2, ConfidenceCap)

Verdict(query, row, content_metadata, policy) ==
    [query |-> query,
     is_answered |-> is_answered_of(RowMax(row)),
     confidence |-> confidence_of(RowMax(row)),
     max_similarity |-> RowMax(row),
     best_match |-> IF Len(content_metadata) >= ArgMax(row)
                    THEN content_metadata[ArgMax(row)].original_text
                    ELSE NoPreview,
     top_matches |-> TopMatches(row, content_metadata, policy)]

----------------------------------------------------------------------------
(* Rounding: round(x, 2) of the fraction a / b, b > 0, in hundredths *)

RoundDiv(a, b) ==
    LET q == a \div b
        r == a - q * b
    IN  IF 2 * r < b THEN q
        ELSE IF 2 * r > b THEN q + 1
        ELSE IF q % 2 = 0 THEN q ELSE q + 1

RECURSIVE SumConfidence(_, _)
SumConfidence(query_analysis, i) ==
    IF i > Len(query_analysis) THEN 0
    ELSE query_analysis[i].confidence + SumConfidence(query_analysis, i + 1)

----------------------------------------------------------------------------
(* _generate_recommendations.  content_coverage is the unrounded float     *)
(* (answered_count / len(queries)) * 100, kept as the fraction num / den.  *)

QueryCut == 50          \* q['query'][:50]
NamedQueries == 3       \* unanswered_queries[:3]
LowCoverage == 50       \* content_coverage < 50
WeakBelow == 60         \* qa['confidence'] < 0.6
ExcellentFrom == 80     \* content_coverage >= 80
GoodFrom == 60          \* content_coverage >= 60

\* the rules evaluated in another order
generate_recommendations_swapped(query_analysis, content_coverage) ==
    LET unanswered_queries == SelectSeq(query_analysis, LAMBDA qa : ~qa.is_answered)
        named == SubSeq(unanswered_queries, 1, Min(NamedQueries, Len(unanswered_queries)))
        cov == content_coverage
        r1 == IF cov.num < LowCoverage * cov.den
              THEN <<[rule |-> "low_coverage", shown |-> RoundDiv(10 * cov.num, cov.den)]>>
              ELSE <<>>
        r2 == IF Len(unanswered_queries) > 0
              THEN <<[rule |-> "unanswered", count |-> Len(unanswered_queries),
                      queries |-> [k \in 1..Len(named) |-> Slice(named[k].query, QueryCut)]]>>
              ELSE <<>>
        r4 == IF cov.num >= ExcellentFrom * cov.den THEN <<[rule |-> "excellent"]>>
              ELSE IF cov.num >= GoodFrom * cov.den THEN <<[rule |-> "good"]>>
              ELSE <<>>
    IN  r2 \o r1 \o r4

generate_recommendations(query_analysis, content_coverage) ==
    LET unanswered_queries == SelectSeq(query_analysis, LAMBDA qa : ~qa.is_answered)
        low_confidence_queries ==
            SelectSeq(query_analysis, LAMBDA qa : qa.is_answered /\ qa.confidence < WeakBelow)
        named == SubSeq(unanswered_queries, 1, Min(NamedQueries, Len(unanswered_queries)))
        cov == content_coverage
        r1 == IF cov.num < LowCoverage * cov.den
              THEN <<[rule |-> "low_coverage", shown |-> RoundDiv(10 * cov.num, cov.den)]>>
              ELSE <<>>
        r2 == IF Len(unanswered_queries) > 0
              THEN <<[rule |-> "unanswered", count |-> Len(unanswered_queries),
                      queries |-> [k \in 1..Len(named) |-> Slice(named[k].query, QueryCut)]]>>
              ELSE <<>>
        r3 == IF Len(low_confidence_queries) > 0
              THEN <<[rule |-> "weak_matches", count |-> Len(low_confidence_queries)]>>
              ELSE <<>>
        r4 == IF cov.num >= ExcellentFrom * cov.den THEN <<[rule |-> "excellent"]>>
              ELSE IF cov.num >= GoodFrom * cov.den THEN <<[rule |-> "good"]>>
              ELSE <<>>
    IN  r1 \o r2 \o r3 \o r4

----------------------------------------------------------------------------
(* analyze_content_relevance *)

ZeroReport(recommendations) ==
    [overall_score |-> 0, query_analysis |-> <<>>, content_coverage |-> 0,
     recommendations |-> recommendations]

ErrorReport(msg) ==
    [overall_score |-> 0, query_analysis |-> <<>>, content_coverage |-> 0,
     recommendations |-> <<[rule |-> "failed", text |-> msg]>>, error |-> msg]

IndexErrorMsg(i, size) ==
    "index " \o ToString(i) \o " is out of bounds for axis 0 with size " \o ToString(size)

\* a loop that stops at the last row instead of raising
QueryVerdicts_rows_only(queries, similarity_matrix, content_metadata, policy) ==
    [raised |-> FALSE, error |-> "",
     query_analysis |->
        [i \in 1..Min(Len(queries), Len(similarity_matrix)) |->
            Verdict(queries[i], similarity_matrix[i], content_metadata, policy)]]

\* a loop that takes the last row for the queries past the last row
QueryVerdicts_last_row(queries, similarity_matrix, content_metadata, policy) ==
    [raised |-> FALSE, error |-> "",
     query_analysis |->
        [i \in 1..Len(queries) |->
            Verdict(queries[i], similarity_matrix[Min(i, Len(similarity_matrix))],
                    content_metadata, policy)]]

\* lines 230-263: one verdict per query, row i of the matrix for query i;
\* similarity_matrix[i] raises IndexError past the last row
QueryVerdicts(queries, similarity_matrix, content_metadata, policy) ==
    IF Len(queries) > Len(similarity_matrix)
    THEN [raised |-> TRUE,
          error |-> IndexErrorMsg(Len(similarity_matrix), Len(similarity_matrix)),
          query_analysis |->
            [i \in 1..Len(similarity_matrix) |->
                Verdict(queries[i], similarity_matrix[i], content_metadata, policy)]]
    ELSE [raised |-> FALSE, error |-> "",
          query_analysis |->
            [i \in 1..Len(queries) |->
                Verdict(queries[i], similarity_matrix[i], content_metadata, policy)]]

AnsweredCount(query_analysis) == Len(SelectSeq(query_analysis, LAMBDA qa : qa.is_answered))

\* a score cut, not rounded, to two decimals
overall_score_truncated(query_analysis, n) ==
    (100 * SumConfidence(query_analysis, 1)) \div n

\* lines 265-285: the aggregate figures and the report
overall_score_of(query_analysis, n) ==
    RoundDiv(100 * SumConfidence(query_analysis, 1), n)

\* a count that looks at the first verdict only
answered_count_first_only(query_analysis) ==
    IF Len(query_analysis) > 0 /\ query_analysis[1].is_answered THEN 1 ELSE 0

answered_count_of(query_analysis) == AnsweredCount(query_analysis)

FullReport(queries, content_texts, query_analysis) ==
    LET answered_count == answered_count_of(query_analysis)
        content_coverage == [num |-> 100 * answered_count, den |-> Len(queries)]
    IN  [overall_score |-> overall_score_of(query_analysis, Len(queries)),
         query_analysis |-> query_analysis,
         content_coverage |-> RoundDiv(100 * content_coverage.num, content_coverage.den),
         queries_answered |-> answered_count,
         total_queries |-> Len(queries),
         recommendations |-> generate_recommendations(query_analysis, content_coverage),
         analysis_metadata |-> [queries_processed |-> Len(queries),
                                content_chunks_analyzed |-> Len(content_texts),
                                model_used |-> "sentence-transformers/all-MiniLM-L6-v2"]]

\* what an encode_texts call did, as the analysis records it
Summary(e) == [raised |-> e.raised, error |-> e.error, invoked |-> e.invoked,
               looked |-> e.looked]

AOut(st, report, encodes, failure) ==
    [st |-> st, report |-> report, encodes |-> encodes, failure |-> failure]

\* a short circuit that forgets the queries
NoInput_chunks_only(queries, content_chunks) == Len(content_chunks) = 0

\* line 180
NoInput(queries, content_chunks) == Len(queries) = 0 \/ Len(content_chunks) = 0

\* an error report that keeps the verdicts computed so far
Degrade_partial(st, error, encodes, failure, partial) ==
    AOut(st, [ErrorReport(error) EXCEPT !.query_analysis = partial], encodes, failure)

\* lines 287-295
Degrade(st, error, encodes, failure, partial) ==
    AOut(st, ErrorReport(error), encodes, failure)

\* lines 226-285
Score(st, queries, content_texts, content_metadata, q, c, policy) ==
    LET similarity_matrix == calculate_similarity(q.value, c.value)
        v == QueryVerdicts(queries, similarity_matrix, content_metadata, policy)
        encodes == <<Summary(q), Summary(c)>>
    IN  IF v.raised
        THEN Degrade(st, v.error, encodes, "scoring", v.query_analysis)
        ELSE AOut(st, FullReport(queries, content_texts, v.query_analysis), encodes, "none")

\* an analysis that goes on to the content after the queries failed
EncodeQueries_goes_on(st, queries, content_chunks, client_id, t1, env1) ==
    LET content_texts == ContentTexts(content_chunks)
        q == encode_texts(st, queries, TRUE, client_id, t1, env1)
    IN  IF NoInput(queries, content_chunks)
        THEN [done |-> TRUE, out |-> AOut(st, ZeroReport(<<>>), <<>>, "none")]
        ELSE IF Len(content_texts) = 0
        THEN [done |-> TRUE,
              out |-> AOut(st, ZeroReport(<<[rule |-> "no_content"]>>), <<>>, "none")]
        ELSE [done |-> FALSE, q |-> q]

\* lines 180-215: the short circuits and the encoding of the queries.
\* t1 is the clock value that encode_texts call reads, env1 what the model
\* load and the Embedder do in it
EncodeQueries(st, queries, content_chunks, client_id, t1, env1) ==
    LET content_texts == ContentTexts(content_chunks)
        q == encode_texts(st, queries, TRUE, client_id, t1, env1)
    IN  IF NoInput(queries, content_chunks)
        THEN [done |-> TRUE, out |-> AOut(st, ZeroReport(<<>>), <<>>, "none")]
        ELSE IF Len(content_texts) = 0
        THEN [done |-> TRUE,
              out |-> AOut(st, ZeroReport(<<[rule |-> "no_content"]>>), <<>>, "none")]
        ELSE IF q.raised
        THEN [done |-> TRUE,
              out |-> Degrade(q.st, q.error, <<Summary(q)>>, "encode_queries", <<>>)]
        ELSE [done |-> FALSE, q |-> q]

\* lines 216-285: the encoding of the content and the scoring, after the
\* queries were encoded as q; t2 and env2 are as t1 and env1
EncodeContent(q, queries, content_chunks, client_id, t2, env2, policy) ==
    LET content_texts == ContentTexts(content_chunks)
        content_metadata == ContentMetadata(content_chunks)
        c == encode_texts(q.st, content_texts, TRUE, client_id, t2, env2)
    IN  IF c.raised
        THEN Degrade(c.st, c.error, <<Summary(q), Summary(c)>>, "encode_content", <<>>)
        ELSE IF Len(q.value) = 0 \/ Len(c.value) = 0
        THEN AOut(c.st, ZeroReport(<<[rule |-> "no_embeddings"]>>),
                  <<Summary(q), Summary(c)>>, "none")
        ELSE Score(c.st, queries, content_texts, content_metadata, q, c, policy)

analyze_content_relevance(st, queries, content_chunks, client_id, t1, t2, env1, env2, policy) ==
    LET first == EncodeQueries(st, queries, content_chunks, client_id, t1, env1)
    IN  IF first.done THEN first.out
        ELSE EncodeContent(first.q, queries, content_chunks, client_id, t2, env2, policy)

----------------------------------------------------------------------------
(* Inputs *)

Qx == Str(0, "x", 12, 0)
QxPadded == Str(2, "x", 12, 1)
Qy == Str(1, "y", 60, 0)
Qz == Str(0, "z", 5, 0)
QBlank == Blank(3)

Cx == Chunk(Str(1, "x", 40, 2), "paragraph")
Cy == Chunk(Str(0, "y", 300, 0), "heading")
Ct == ChunkNoType(Str(0, "t", 1500, 0))
CShort == Chunk(Str(3, "x", 10, 4), "paragraph")

\* the requests the running service is given
QueryLists == {<<>>, <<Qx>>, <<Qx, QBlank>>}
\* query lists that pass the check of line 180: one whose query is
\* encoded, one whose only query is dropped by the cleaning of lines 113-115
EncodedQueryLists == {<<Qx>>, <<QBlank>>}
ChunkLists == {<<>>, <<Cx>>, <<Cy, Ct>>}
OtherBatches == {<<Qz>>}
ServiceClients == {"c1"}

\* the batches encode_texts is given when it is called on its own
TextBatches == {<<>>, <<Qx>>, <<QxPadded>>, <<QBlank, NotAString>>, <<Qy, Qz>>, <<Qz, Qy>>}

\* the batches that fill the cache
\* a batch that is not <<Qx>> and has the hash of <<Qx>>
CollidingBatch == <<Qx, Str(0, "y", 290, 0)>>

CacheBatches == {<<Qx>>, <<QxPadded>>, <<Qz>>, <<Qy, Qz>>, <<Qz, Qy>>, CollidingBatch}

\* the requests a freshly constructed service is given
QueryPool == {Qx, Qy, Qz, QBlank}
ChunkPool == {Cx, Cy, Ct}
OddChunkLists == {<<CShort>>, <<CShort, Cx>>, <<NotADict, ChunkNoText>>}
LongChunkLists == {<<Cy, Cy, Cy, Cx>>, <<Cx, Ct, Cy, Ct>>, <<Ct, CShort, Cy, Cx, Cx>>}

\* one text with and without blanks around it: the two chunks are encoded
\* from the same trimmed text and have different previews
PaddedTwins == <<Chunk(Str(0, "x", 40, 0), "heading"), Cx>>

\* one text under four types: four chunks that score the same for any query
SameTextChunks == <<Chunk(Str(0, "x", 40, 0), "title"),
                    Chunk(Str(0, "x", 40, 0), "heading"),
                    Chunk(Str(0, "x", 40, 0), "paragraph"),
                    Chunk(Str(0, "x", 40, 0), "list_item")>>

SeqsUpTo(S, n) == UNION {[1..k -> S] : k \in 0..n}

NoRequest == [queries |-> <<>>, content_chunks |-> <<>>, client_id |-> "none"]

Requests == [queries : SeqsUpTo(QueryPool, MaxQ),
             content_chunks : SeqsUpTo(ChunkPool, MaxC) \cup OddChunkLists
                                \cup LongChunkLists \cup {SameTextChunks, PaddedTwins},
             client_id : {"c1"}]

\* what the load attempts of one initialize() do: the first k fail
LoadChoices(m) ==
    IF m # "None" THEN {[i \in 1..retry_count |-> TRUE]}
    ELSE {[i \in 1..retry_count |-> i > k] : k \in 0..retry_count}

----------------------------------------------------------------------------
(* State *)

NoCall == [queries |-> <<>>, content_chunks |-> <<>>, client_id |-> "none",
           report |-> ZeroReport(<<>>), encodes |-> <<>>, failure |-> "none",
           changed |-> FALSE]

NoRep == [repeated |-> FALSE, same_report |-> TRUE, clean |-> TRUE]

NoEncode == [called |-> FALSE, completed |-> FALSE, cleaned |-> <<>>, value |-> <<>>,
             use_cache |-> FALSE]

NoEncRep == [repeated |-> FALSE, same_value |-> TRUE, invoked |-> FALSE,
             raised |-> FALSE, cached |-> FALSE, looked |-> FALSE]

NoRl == [identifier |-> "none", allowed |-> FALSE, at |-> 0]

NoIns == [happened |-> FALSE, before |-> <<>>, key |-> 0, after |-> <<>>,
          made |-> <<>>, looked |-> FALSE, hit |-> FALSE, asked |-> <<>>,
          held |-> <<>>, found |-> <<>>]

Keys(c) == [i \in 1..Len(c) |-> c[i].key]

Tasks == 1..MaxTasks

Threads == 1..MaxThreads

\* a thread outside is_allowed.  pc is its position in lines 27-39, t its
\* local now, result what the call is returning
NoThread == [pc |-> "idle", identifier |-> "none", t |-> 0, result |-> "none"]

\* a coroutine that was not started yet.  kind is the entry point it is
\* started at, pc where it is suspended, attempt and last_error the locals of
\* initialize(); the other fields record what the coroutine did
NoTask == [kind |-> "none", pc |-> "idle", attempt |-> 0, last_error |-> "None",
           outcome |-> "none", error |-> "", loads |-> 0, built |-> FALSE,
           waited |-> FALSE, texts |-> <<>>, use_cache |-> FALSE,
           admitted |-> FALSE, looked |-> FALSE, invoked |-> FALSE]

ServiceInit ==
    /\ now = 0
    /\ calls = [c \in Clients |-> <<>>]
    /\ model = "None"
    /\ loading = FALSE
    /\ cache = <<>>
    /\ last = NoCall
    /\ rep = NoRep
    /\ encLast = NoEncode
    /\ encRep = NoEncRep
    /\ rlLast = NoRl
    /\ admitted = [c \in Clients |-> <<>>]
    /\ ins = NoIns
    /\ lock = 0
    /\ threads = [th \in Threads |-> NoThread]
    /\ tasks = [k \in Tasks |-> NoTask]

\* no _generate_recommendations call under way
NoRec == [query_analysis |-> <<>>, content_coverage |-> [num |-> 0, den |-> 1],
          recommendations |-> <<>>, returned |-> FALSE]

\* the requests of the running service hold no two equal scores in a row
Init == ServiceInit /\ tie = "ascending" /\ pending = NoRequest /\ rec = NoRec

InitFresh ==
    /\ ServiceInit
    /\ tie \in {"ascending", "descending"}
    /\ pending \in Requests
    /\ rec = NoRec

\* row maxima of the verdicts: 0.1, 0.4, 0.45 and 1.0
VerdictScores == {MinScore, AnsweredAbove, AnsweredAbove + 5, ConfidenceCap}

\* the verdicts _generate_recommendations may be given: it reads query,
\* is_answered and confidence only
VerdictPool ==
    {[query |-> query, is_answered |-> is_answered_of(max_similarity),
      confidence |-> confidence_of(max_similarity)] :
        query \in {Qx, Qy}, max_similarity \in VerdictScores}

\* lines 267-271: the arguments of the call, content_coverage computed from
\* the verdicts as analyze_content_relevance computes it
RecArgs(query_analysis) ==
    [query_analysis |-> query_analysis,
     content_coverage |-> [num |-> 100 * answered_count_of(query_analysis),
                           den |-> Len(query_analysis)],
     recommendations |-> <<>>, returned |-> FALSE]

InitRecommend ==
    /\ ServiceInit
    /\ tie = "ascending"
    /\ pending = NoRequest
    /\ \E n \in 1..MaxVerdicts : \E query_analysis \in [1..n -> VerdictPool] :
            rec = RecArgs(query_analysis)

State == [calls |-> calls, model |-> model, cache |-> cache]

EncRecord(texts, use_cache, e) ==
    [called |-> TRUE, completed |-> ~e.raised, cleaned |-> CleanTexts(texts),
     value |-> e.value, use_cache |-> use_cache]

EncCompare(prev, cur, e) ==
    [repeated |-> prev.completed /\ prev.cleaned = cur.cleaned,
     same_value |-> prev.value = cur.value,
     invoked |-> e.invoked,
     raised |-> e.raised,
     cached |-> prev.use_cache /\ cur.use_cache,
     looked |-> e.looked]

\* what an encode_texts call that reached line 140 did to the cache; a call
\* that inserted nothing leaves the record of the last insertion
\* made lists, entry by entry, the cleaned batches whose calls inserted the
\* entries of the cache; looked says that the call looked its key up, hit
\* that it returned an entry, asked is its cleaned batch, held the batches
\* whose entries the cache held when it looked, found the batch whose entry
\* it returned
InsRecord(texts, use_cache, e) ==
    LET cleaned == CleanTexts(texts)
        key == hash(cleaned)
        inserted == use_cache /\ e.invoked /\ ~e.raised
        hit == e.looked /\ ~e.invoked /\ ~e.raised
        all == Append(ins.made, cleaned)
    IN  [happened |-> inserted \/ ins.happened,
         before |-> IF inserted THEN Keys(cache) ELSE ins.before,
         key |-> IF inserted THEN key ELSE ins.key,
         after |-> IF inserted THEN Keys(e.st.cache) ELSE ins.after,
         made |-> IF inserted
                  THEN SubSeq(all, Len(all) - Len(e.st.cache) + 1, Len(all))
                  ELSE ins.made,
         looked |-> e.looked,
         hit |-> hit,
         asked |-> cleaned,
         held |-> ins.made,
         found |-> IF hit
                   THEN ins.made[CHOOSE i \in 1..Len(cache) : cache[i].key = key]
                   ELSE <<>>]

----------------------------------------------------------------------------
(* Actions *)

Tick ==
    /\ now < MaxTime
    /\ now' = now + 1
    /\ UNCHANGED <<calls, model, loading, cache, tie, lock, threads, rec, pending, last, rep,
                   encLast, encRep, rlLast, admitted, ins, tasks>>

\* RateLimiter.is_allowed called on its own
IsAllowedCall(identifier) ==
    LET rl == is_allowed(calls, identifier, now)
    IN  /\ calls' = rl.calls
        /\ rlLast' = [identifier |-> identifier, allowed |-> rl.allowed, at |-> now]
        /\ admitted' = [admitted EXCEPT ![identifier] =
                            IF rl.allowed THEN Append(@, now) ELSE @]
        /\ UNCHANGED <<now, model, loading, cache, tie, lock, threads, rec, pending, last, rep,
                       encLast, encRep, ins, tasks>>

\* initialize() called on its own (health_check, start_server)
InitializeCall ==
    \E loads \in LoadChoices(model) :
        /\ model' = initialize(model, loads).model
        /\ UNCHANGED <<now, calls, loading, cache, tie, lock, threads, rec, pending, last, rep,
                       encLast, encRep, rlLast, admitted, ins, tasks>>

\* encode_texts(texts, use_cache, client_id): e is its outcome
Encode(texts, use_cache, client_id, e) ==
    /\ calls' = e.st.calls
    /\ model' = e.st.model
    /\ cache' = e.st.cache
    /\ UNCHANGED <<now, loading, tie, lock, threads, rec, pending, last, rep, rlLast, admitted, tasks>>

EncodeOutcomes(texts, use_cache, client_id) ==
    {encode_texts(State, texts, use_cache, client_id, now,
                  [loads |-> loads, encode_ok |-> encode_ok]) :
        loads \in LoadChoices(model), encode_ok \in BOOLEAN}

\* encode_texts called by another user of the service
EncodeOther ==
    \E texts \in OtherBatches, use_cache \in BOOLEAN, client_id \in ServiceClients :
        \E e \in EncodeOutcomes(texts, use_cache, client_id) :
            /\ Encode(texts, use_cache, client_id, e)
            /\ UNCHANGED <<encLast, encRep, ins>>

\* encode_texts called on its own, each call compared with the one before
EncodeCall ==
    \E texts \in TextBatches, use_cache \in BOOLEAN, client_id \in ServiceClients :
        \E e \in EncodeOutcomes(texts, use_cache, client_id) :
            /\ Encode(texts, use_cache, client_id, e)
            /\ encLast' = EncRecord(texts, use_cache, e)
            /\ encRep' = EncCompare(encLast, EncRecord(texts, use_cache, e), e)
            /\ UNCHANGED ins

\* encode_texts called on its own, its cache insertion recorded
EncodeInsert ==
    \E texts \in CacheBatches, use_cache \in BOOLEAN, client_id \in ServiceClients :
        \E e \in EncodeOutcomes(texts, use_cache, client_id) :
            /\ Encode(texts, use_cache, client_id, e)
            /\ ins' = InsRecord(texts, use_cache, e)
            /\ UNCHANGED <<encLast, encRep>>

\* what a finished analyze_content_relevance call leaves behind: out is its
\* outcome, t the clock when it returns
Return(queries, content_chunks, client_id, out, t) ==
    /\ calls' = out.st.calls
    /\ model' = out.st.model
    /\ cache' = out.st.cache
    /\ now' = t
    /\ last' = [queries |-> queries, content_chunks |-> content_chunks,
                client_id |-> client_id, report |-> out.report,
                encodes |-> out.encodes, failure |-> out.failure,
                changed |-> out.st # State]
    /\ rep' = [repeated |-> /\ last.client_id = client_id
                            /\ last.queries = queries
                            /\ last.content_chunks = content_chunks,
               same_report |-> out.report = last.report,
               clean |-> /\ "error" \notin DOMAIN out.report
                         /\ "error" \notin DOMAIN last.report]
    /\ UNCHANGED <<loading, tie, lock, threads, rec, encLast, encRep, rlLast, admitted, ins, tasks>>

\* analyze_content_relevance(queries, content_chunks, client_id); the clock
\* may advance while the call awaits the encoding of the queries
Analyze(queries, content_chunks, client_id) ==
    \E loads \in LoadChoices(model), ok1 \in BOOLEAN :
        LET env1 == [loads |-> loads, encode_ok |-> ok1]
            first == EncodeQueries(State, queries, content_chunks, client_id, now, env1)
        IN  IF first.done
            THEN Return(queries, content_chunks, client_id, first.out, now)
            ELSE \E t2 \in now..Min(now + 1, MaxTime), ok2 \in BOOLEAN :
                    Return(queries, content_chunks, client_id,
                           EncodeContent(first.q, queries, content_chunks, client_id, t2,
                                         [loads |-> loads, encode_ok |-> ok2], tie),
                           t2)

AnalyzeCall ==
    \E queries \in QueryLists, content_chunks \in ChunkLists, client_id \in ServiceClients :
        /\ Analyze(queries, content_chunks, client_id)
        /\ UNCHANGED pending

\* analyze_content_relevance called with queries, so that it goes on to the
\* encodes of lines 215-216 whenever content is left
AnalyzeEncoding ==
    \E queries \in EncodedQueryLists, content_chunks \in ChunkLists,
       client_id \in ServiceClients :
        /\ Analyze(queries, content_chunks, client_id)
        /\ UNCHANGED pending

\* the one request of a freshly constructed service
AnalyzePending ==
    /\ pending # NoRequest
    /\ Analyze(pending.queries, pending.content_chunks, pending.client_id)
    /\ pending' = NoRequest

\* _generate_recommendations(query_analysis, content_coverage) returns
Recommend ==
    /\ ~rec.returned
    /\ Len(rec.query_analysis) > 0
    /\ rec' = [rec EXCEPT !.recommendations =
                    generate_recommendations(rec.query_analysis, rec.content_coverage),
                          !.returned = TRUE]
    /\ UNCHANGED <<now, calls, model, loading, cache, tie, lock, threads, pending, last, rep,
                   encLast, encRep, rlLast, admitted, ins, tasks>>

\* the running service
Next ==
    \/ Tick
    \/ InitializeCall
    \/ EncodeOther
    \/ AnalyzeCall

Spec == Init /\ [][Next]_vars

\* the running service, every analysis with queries
NextSlots ==
    \/ Tick
    \/ InitializeCall
    \/ EncodeOther
    \/ AnalyzeEncoding

SpecSlots == Init /\ [][NextSlots]_vars

\* encode_texts on its own
NextEncode ==
    \/ Tick
    \/ InitializeCall
    \/ EncodeCall

SpecEncode == Init /\ [][NextEncode]_vars

\* encode_texts filling the cache
NextCache ==
    \/ Tick
    \/ InitializeCall
    \/ EncodeInsert

SpecCache == Init /\ [][NextCache]_vars

\* the RateLimiter on its own
NextLimiter ==
    \/ Tick
    \/ \E identifier \in Clients : IsAllowedCall(identifier)

SpecLimiter == Init /\ [][NextLimiter]_vars

\* _generate_recommendations on its own
NextRecommend == Recommend

SpecRecommend == InitRecommend /\ [][NextRecommend]_vars

\* a freshly constructed service answering one request
NextFresh == AnalyzePending

SpecFresh == InitFresh /\ [][NextFresh]_vars

----------------------------------------------------------------------------
(* Coroutines on the event loop.  initialize() and encode_texts are async: *)
(* a coroutine runs alone from one await to the next, and other coroutines *)
(* run while it is suspended.  Each action below is one such stretch.      *)

\* the calls the coroutines make: encode_texts with its default use_cache
TaskBatches == {<<Qx>>, <<QBlank>>}
TaskUseCache == {TRUE}

\* the exception of load attempt number attempt (0-based)
LoadError(attempt) == "load error " \o ToString(attempt + 1)

NoModelMsg == EncodeErrorPrefix \o "'NoneType' object has no attribute 'encode'"

Finish(t, outcome, error) ==
    [t EXCEPT !.pc = "done", !.outcome = outcome, !.error = error]

\* lines 108-136: encode_texts from the return of initialize() to the await
\* of the worker pool; m is self.model and c self._cache at that moment
EncodeBody(t, m, c) ==
    LET cleaned_texts == CleanTexts(t.texts)
    IN  IF Len(t.texts) = 0 THEN Finish(t, "returned", "")
        ELSE IF Len(cleaned_texts) = 0 THEN Finish(t, "returned", "")
        ELSE IF t.use_cache /\ CacheHas(c, hash(cleaned_texts))
        THEN [Finish(t, "returned", "") EXCEPT !.looked = TRUE]
        ELSE IF m = "None"
        THEN [Finish(t, "raised", NoModelMsg) EXCEPT !.looked = t.use_cache]
        ELSE [t EXCEPT !.pc = "encoding", !.looked = t.use_cache, !.invoked = TRUE]

\* what the coroutine does when its initialize() call returns
Resume(t, m, c) ==
    IF t.kind = "initialize" THEN Finish(t, "returned", "") ELSE EncodeBody(t, m, c)

\* an initialize() without the check of self.model
Enter_reload(k, t) ==
    IF loading
    THEN /\ tasks' = [tasks EXCEPT ![k] = [t EXCEPT !.pc = "polling", !.waited = TRUE]]
         /\ UNCHANGED loading
    ELSE /\ loading' = TRUE
         /\ tasks' = [tasks EXCEPT ![k] = [t EXCEPT !.pc = "loading", !.attempt = 0,
                                                     !.loads = 1]]

\* an initialize() without the check of _loading
Enter_unguarded(k, t) ==
    IF model # "None"
    THEN /\ tasks' = [tasks EXCEPT ![k] = Resume(t, model, cache)]
         /\ UNCHANGED loading
    ELSE /\ loading' = TRUE
         /\ tasks' = [tasks EXCEPT ![k] = [t EXCEPT !.pc = "loading", !.attempt = 0,
                                                     !.loads = 1]]

\* lines 57-71: initialize() from its call to its first await
Enter(k, t) ==
    IF model # "None"
    THEN /\ tasks' = [tasks EXCEPT ![k] = Resume(t, model, cache)]
         /\ UNCHANGED loading
    ELSE IF loading
    THEN /\ tasks' = [tasks EXCEPT ![k] = [t EXCEPT !.pc = "polling", !.waited = TRUE]]
         /\ UNCHANGED loading
    ELSE /\ loading' = TRUE
         /\ tasks' = [tasks EXCEPT ![k] = [t EXCEPT !.pc = "loading", !.attempt = 0,
                                                     !.loads = 1]]

\* the coroutines are started in the order of their numbers
MayStart(k) ==
    /\ tasks[k].pc = "idle"
    /\ k > 1 => tasks[k - 1].pc # "idle"

\* await semantic_service.initialize() of health_check and start_server
CallInitialize(k) ==
    /\ MayStart(k)
    /\ Enter(k, [tasks[k] EXCEPT !.kind = "initialize"])
    /\ UNCHANGED <<now, calls, model, cache, tie, lock, threads, rec, pending, last, rep,
                   encLast, encRep, rlLast, admitted, ins>>

\* an encode_texts that goes on after a denial
CallEncode_unlimited(k, texts, use_cache, client_id) ==
    LET rl == is_allowed(calls, client_id, now)
        t == [tasks[k] EXCEPT !.kind = "encode_texts", !.texts = texts,
                              !.use_cache = use_cache, !.admitted = rl.allowed]
    IN  /\ MayStart(k)
        /\ calls' = rl.calls
        /\ Enter(k, t)
        /\ UNCHANGED <<now, model, cache, tie, lock, threads, rec, pending, last, rep,
                       encLast, encRep, rlLast, admitted, ins>>

\* lines 99-106: encode_texts from its call to its first await
CallEncode(k, texts, use_cache, client_id) ==
    LET rl == is_allowed(calls, client_id, now)
        t == [tasks[k] EXCEPT !.kind = "encode_texts", !.texts = texts,
                              !.use_cache = use_cache, !.admitted = rl.allowed]
    IN  /\ MayStart(k)
        /\ calls' = rl.calls
        /\ IF rl.allowed
           THEN Enter(k, t)
           ELSE /\ tasks' = [tasks EXCEPT ![k] = Finish(t, "raised", RateLimitMsg)]
                /\ UNCHANGED loading
        /\ UNCHANGED <<now, model, cache, tie, lock, threads, rec, pending, last, rep,
                       encLast, encRep, rlLast, admitted, ins>>

\* lines 62-64: the polling loop sees _loading false and initialize() returns
Poll(k) ==
    /\ tasks[k].pc = "polling"
    /\ ~loading
    /\ tasks' = [tasks EXCEPT ![k] = Resume(tasks[k], model, cache)]
    /\ UNCHANGED <<now, calls, model, loading, cache, tie, lock, threads, rec, pending, last, rep,
                   encLast, encRep, rlLast, admitted, ins>>

\* a load that gives up at the first failure
LoadDone_no_retry(k, ok) ==
    LET t == tasks[k]
        failed == [t EXCEPT !.last_error = LoadError(t.attempt)]
    IN  /\ t.pc = "loading"
        /\ IF ok
           THEN /\ model' = "loaded"
                /\ loading' = FALSE
                /\ tasks' = [tasks EXCEPT ![k] =
                                Resume([t EXCEPT !.built = TRUE], "loaded", cache)]
           ELSE /\ loading' = FALSE
                /\ tasks' = [tasks EXCEPT ![k] =
                                Finish(failed, "raised", failed.last_error)]
                /\ UNCHANGED model
        /\ UNCHANGED <<now, calls, cache, tie, lock, threads, rec, pending, last, rep,
                       encLast, encRep, rlLast, admitted, ins>>

\* a retry loop without the finally clause: _loading stays set when the
\* loop is left
LoadDone_keeps_flag(k, ok) ==
    LET t == tasks[k]
        failed == [t EXCEPT !.last_error = LoadError(t.attempt)]
    IN  /\ t.pc = "loading"
        /\ IF ok
           THEN /\ model' = "loaded"
                /\ tasks' = [tasks EXCEPT ![k] =
                                Resume([t EXCEPT !.built = TRUE], "loaded", cache)]
           ELSE IF t.attempt < retry_count - 1
           THEN /\ tasks' = [tasks EXCEPT ![k] = [failed EXCEPT !.pc = "backoff"]]
                /\ UNCHANGED model
           ELSE /\ tasks' = [tasks EXCEPT ![k] =
                                Finish(failed, "raised", failed.last_error)]
                /\ UNCHANGED model
        /\ UNCHANGED <<now, calls, loading, cache, tie, lock, threads, rec, pending,
                       last, rep, encLast, encRep, rlLast, admitted, ins>>

\* lines 77-97: the load running in the default executor ends; ok says
\* whether SentenceTransformer(...) returned or raised
LoadDone(k, ok) ==
    LET t == tasks[k]
        failed == [t EXCEPT !.last_error = LoadError(t.attempt)]
    IN  /\ t.pc = "loading"
        /\ IF ok
           THEN /\ model' = "loaded"
                /\ loading' = FALSE
                /\ tasks' = [tasks EXCEPT ![k] =
                                Resume([t EXCEPT !.built = TRUE], "loaded", cache)]
           ELSE IF t.attempt < retry_count - 1
           THEN /\ tasks' = [tasks EXCEPT ![k] = [failed EXCEPT !.pc = "backoff"]]
                /\ UNCHANGED <<model, loading>>
           ELSE /\ loading' = FALSE
                /\ tasks' = [tasks EXCEPT ![k] =
                                Finish(failed, "raised", failed.last_error)]
                /\ UNCHANGED model
        /\ UNCHANGED <<now, calls, cache, tie, lock, threads, rec, pending, last, rep,
                       encLast, encRep, rlLast, admitted, ins>>

\* line 89: the backoff sleep ends and the next attempt starts
BackoffDone(k) ==
    /\ tasks[k].pc = "backoff"
    /\ tasks' = [tasks EXCEPT ![k] = [@ EXCEPT !.pc = "loading", !.attempt = @ + 1,
                                                !.loads = @ + 1]]
    /\ UNCHANGED <<now, calls, model, loading, cache, tie, lock, threads, rec, pending, last, rep,
                   encLast, encRep, rlLast, admitted, ins>>

\* a failed encode that leaves an empty entry in the cache
EncodeDone_caches_failure(k, ok) ==
    LET t == tasks[k]
        cleaned_texts == CleanTexts(t.texts)
    IN  /\ t.pc = "encoding"
        /\ tasks' = [tasks EXCEPT ![k] =
                        IF ok THEN Finish(t, "returned", "")
                        ELSE Finish(t, "raised", EncodeErrorMsg)]
        /\ cache' = IF t.use_cache
                     THEN CachePut(cache, hash(cleaned_texts),
                                   IF ok THEN model_encode(cleaned_texts) ELSE <<>>)
                     ELSE cache
        /\ UNCHANGED <<now, calls, model, loading, tie, lock, threads, rec, pending, last, rep,
                       encLast, encRep, rlLast, admitted, ins>>

\* lines 132-155: model.encode running in the worker pool ends
EncodeDone(k, ok) ==
    LET t == tasks[k]
        cleaned_texts == CleanTexts(t.texts)
    IN  /\ t.pc = "encoding"
        /\ IF ok
           THEN /\ tasks' = [tasks EXCEPT ![k] = Finish(t, "returned", "")]
                /\ cache' = IF t.use_cache
                             THEN CachePut(cache, hash(cleaned_texts),
                                           model_encode(cleaned_texts))
                             ELSE cache
           ELSE /\ tasks' = [tasks EXCEPT ![k] = Finish(t, "raised", EncodeErrorMsg)]
                /\ UNCHANGED cache
        /\ UNCHANGED <<now, calls, model, loading, tie, lock, threads, rec, pending, last, rep,
                       encLast, encRep, rlLast, admitted, ins>>

\* a cancellation without the finally clause of line 96
Cancel_keeps_flag(k) ==
    LET t == tasks[k]
    IN  /\ t.pc \in {"polling", "loading", "backoff", "encoding"}
        /\ tasks' = [tasks EXCEPT ![k] = Finish(t, "cancelled", "")]
        /\ UNCHANGED <<now, calls, model, loading, cache, tie, lock, threads, rec,
                       pending, last, rep, encLast, encRep, rlLast, admitted, ins>>

\* the coroutine is cancelled at its await: CancelledError is not an
\* Exception, so only the finally clause of initialize() runs
Cancel(k) ==
    LET t == tasks[k]
    IN  /\ t.pc \in {"polling", "loading", "backoff", "encoding"}
        /\ tasks' = [tasks EXCEPT ![k] = Finish(t, "cancelled", "")]
        /\ loading' = IF t.pc \in {"loading", "backoff"} THEN FALSE ELSE loading
        /\ UNCHANGED <<now, calls, model, cache, tie, lock, threads, rec, pending, last, rep,
                       encLast, encRep, rlLast, admitted, ins>>

NextTasks ==
    \/ \E k \in Tasks : CallInitialize(k)
    \/ \E k \in Tasks, texts \in TaskBatches, use_cache \in TaskUseCache,
          client_id \in ServiceClients : CallEncode(k, texts, use_cache, client_id)
    \/ \E k \in Tasks : Poll(k)
    \/ \E k \in Tasks, ok \in BOOLEAN : LoadDone(k, ok)
    \/ \E k \in Tasks : BackoffDone(k)
    \/ \E k \in Tasks, ok \in BOOLEAN : EncodeDone(k, ok)
    \/ \E k \in Tasks : Cancel(k)

SpecTasks == Init /\ [][NextTasks]_vars

\* the event loop is fair to a coroutine whose await is over: a load attempt
\* in the executor ends, a backoff sleep ends, and a polling coroutine whose
\* sleep(0.1) is over runs again and leaves the loop if _loading stays false
TasksFairness ==
    \A k \in Tasks :
        /\ WF_vars(\E ok \in BOOLEAN : LoadDone(k, ok))
        /\ WF_vars(BackoffDone(k))
        /\ WF_vars(Poll(k))

\* the coroutines with one batch for every encode_texts call: what
\* initialize() does is the same for every batch
NextLoads ==
    \/ \E k \in Tasks : CallInitialize(k)
    \/ \E k \in Tasks, client_id \in ServiceClients :
          CallEncode(k, <<Qx>>, TRUE, client_id)
    \/ \E k \in Tasks : Poll(k)
    \/ \E k \in Tasks, ok \in BOOLEAN : LoadDone(k, ok)
    \/ \E k \in Tasks : BackoffDone(k)
    \/ \E k \in Tasks, ok \in BOOLEAN : EncodeDone(k, ok)
    \/ \E k \in Tasks : Cancel(k)

SpecTasksFair == Init /\ [][NextLoads]_vars /\ TasksFairness

----------------------------------------------------------------------------
(* RateLimiter.is_allowed called by concurrent threads, statement by       *)
(* statement.  A thread can be preempted between any two statements.       *)

ThreadStep(th, new) ==
    threads' = [threads EXCEPT ![th] = new]

\* a thread calls is_allowed(identifier) and reaches the with statement
CallIsAllowed(th, identifier) ==
    /\ threads[th].pc = "idle"
    /\ ThreadStep(th, [NoThread EXCEPT !.pc = "acquire", !.identifier = identifier])
    /\ UNCHANGED <<now, calls, model, loading, cache, tie, rec, pending, last, rep,
                   encLast, encRep, rlLast, admitted, ins, tasks, lock>>

\* a with statement that does not wait for the lock
Acquire_no_lock(th) ==
    /\ threads[th].pc = "acquire"
    /\ lock' = th
    /\ ThreadStep(th, [threads[th] EXCEPT !.pc = "clock"])
    /\ UNCHANGED <<now, calls, model, loading, cache, tie, rec, pending, last, rep,
                   encLast, encRep, rlLast, admitted, ins, tasks>>

\* line 27: with self.lock, entered once the lock is free
Acquire(th) ==
    /\ threads[th].pc = "acquire"
    /\ lock = 0
    /\ lock' = th
    /\ ThreadStep(th, [threads[th] EXCEPT !.pc = "clock"])
    /\ UNCHANGED <<now, calls, model, loading, cache, tie, rec, pending, last, rep,
                   encLast, encRep, rlLast, admitted, ins, tasks>>

\* a timestamp taken before the lock was acquired: the clock may have moved
\* since
ReadClock_before_lock(th) ==
    /\ threads[th].pc = "clock"
    /\ \E t \in {now - 1, now} \cap Nat :
            ThreadStep(th, [threads[th] EXCEPT !.pc = "prune", !.t = t])
    /\ UNCHANGED <<now, calls, model, loading, cache, tie, rec, pending, last, rep,
                   encLast, encRep, rlLast, admitted, ins, tasks, lock>>

\* line 28: now = time.time()
ReadClock(th) ==
    /\ threads[th].pc = "clock"
    /\ ThreadStep(th, [threads[th] EXCEPT !.pc = "prune", !.t = now])
    /\ UNCHANGED <<now, calls, model, loading, cache, tie, rec, pending, last, rep,
                   encLast, encRep, rlLast, admitted, ins, tasks, lock>>

\* lines 30-33: self.calls[identifier] = the list of its unexpired calls
Prune(th) ==
    LET me == threads[th]
    IN  /\ me.pc = "prune"
        /\ calls' = [calls EXCEPT ![me.identifier] =
                        SelectSeq(@, LAMBDA call_time : me.t - call_time < window)]
        /\ ThreadStep(th, [me EXCEPT !.pc = "count"])
        /\ UNCHANGED <<now, model, loading, cache, tie, rec, pending, last, rep,
                       encLast, encRep, rlLast, admitted, ins, tasks, lock>>

\* lines 35-36: the count, and return False
Count(th) ==
    LET me == threads[th]
    IN  /\ me.pc = "count"
        /\ IF Len(calls[me.identifier]) >= max_calls
           THEN ThreadStep(th, [me EXCEPT !.pc = "release", !.result = "False"])
           ELSE ThreadStep(th, [me EXCEPT !.pc = "append"])
        /\ UNCHANGED <<now, calls, model, loading, cache, tie, rec, pending, last, rep,
                       encLast, encRep, rlLast, admitted, ins, tasks, lock>>

\* lines 38-39: the append, and return True
AppendNow(th) ==
    LET me == threads[th]
    IN  /\ me.pc = "append"
        /\ calls' = [calls EXCEPT ![me.identifier] = Append(@, me.t)]
        /\ admitted' = [admitted EXCEPT ![me.identifier] = Append(@, me.t)]
        /\ ThreadStep(th, [me EXCEPT !.pc = "release", !.result = "True"])
        /\ UNCHANGED <<now, model, loading, cache, tie, rec, pending, last, rep,
                       encLast, encRep, rlLast, ins, tasks, lock>>

\* the with statement is left: the lock is released and the call returns
Release(th) ==
    /\ threads[th].pc = "release"
    /\ lock' = 0
    /\ ThreadStep(th, NoThread)
    /\ UNCHANGED <<now, calls, model, loading, cache, tie, rec, pending, last, rep,
                   encLast, encRep, rlLast, admitted, ins, tasks>>

\* the clock advances while the threads run
ThreadTick == now < MaxThreadTime /\ Tick

NextThreads ==
    \/ ThreadTick
    \/ \E th \in Threads, identifier \in Clients : CallIsAllowed(th, identifier)
    \/ \E th \in Threads : Acquire(th)
    \/ \E th \in Threads : ReadClock(th)
    \/ \E th \in Threads : Prune(th)
    \/ \E th \in Threads : Count(th)
    \/ \E th \in Threads : AppendNow(th)
    \/ \E th \in Threads : Release(th)

SpecThreads == Init /\ [][NextThreads]_vars

----------------------------------------------------------------------------
(* Properties of analyze_content_relevance *)

Called == last.client_id # "none"

\* a report of the scoring stage (lines 273-285)
Scored == Called /\ "queries_answered" \in DOMAIN last.report

Verdicts == last.report.query_analysis

Abs(a) == IF a < 0 THEN -a ELSE a

\* C1: when an encode_texts call or the scoring raises, the call returns a
\* report with overall_score 0, content_coverage 0, no verdicts and the
\* message of the error in its error field
C1_FailureDegradesToZeroReport ==
    (Called /\ last.failure # "none") =>
        /\ last.report.overall_score = 0
        /\ last.report.content_coverage = 0
        /\ last.report.query_analysis = <<>>
        /\ "error" \in DOMAIN last.report
        /\ last.report.error # ""
        /\ last.failure # "scoring" =>
                /\ last.encodes[Len(last.encodes)].raised
                /\ last.report.error = last.encodes[Len(last.encodes)].error
        /\ last.failure = "scoring" =>
                last.report.error = IndexErrorMsg(Len(CleanTexts(last.queries)),
                                                  Len(CleanTexts(last.queries)))

\* the content encoding was denied by the rate limiter after the queries
\* were encoded
C1_Witness ==
    /\ Called
    /\ last.failure = "encode_content"
    /\ last.report.error = RateLimitMsg

\* C3: with no queries or no chunks the call returns zero scores without an
\* encode_texts call (so no Embedder call, no initialization, no cache
\* access) and leaves the rate limiter, the model and the cache as they were
C3_NoInputTouchesNothing ==
    (Called /\ (Len(last.queries) = 0 \/ Len(last.content_chunks) = 0)) =>
        /\ last.report.overall_score = 0
        /\ last.report.content_coverage = 0
        /\ last.encodes = <<>>
        /\ ~last.changed

C3_Witness ==
    /\ Called
    /\ Len(last.queries) = 0
    /\ Len(last.content_chunks) > 0
    /\ model = "None"
    /\ calls["c1"] = <<>>

\* C4: is_answered is true exactly when max_similarity is above 0.4
C4_AnsweredIffAboveThreshold ==
    Called =>
        \A i \in 1..Len(Verdicts) :
            Verdicts[i].is_answered <=> Verdicts[i].max_similarity > 40

\* a verdict at exactly 0.4 is not answered
C4_Witness ==
    /\ Scored
    /\ \E i \in 1..Len(Verdicts) :
            Verdicts[i].max_similarity = 40 /\ ~Verdicts[i].is_answered
    /\ \E i \in 1..Len(Verdicts) : Verdicts[i].is_answered

\* C5: every confidence lies in [0, 1] and overall_score in [0, 100]
C5_ConfidenceAndScoreInRange ==
    Called =>
        /\ \A i \in 1..Len(Verdicts) :
                Verdicts[i].confidence >= 0 /\ Verdicts[i].confidence <= 100
        /\ last.report.overall_score >= 0
        /\ last.report.overall_score <= 10000

\* the largest similarity between a query and the content texts, each
\* cleaned as encode_texts cleans it
OwnRowMax(query, content_texts) ==
    RowMax([j \in 1..Len(content_texts) |->
                Cosine(EmbedVec(Slice(strip(query), TextLimit)),
                       EmbedVec(Slice(strip(content_texts[j]), TextLimit)))])

\* C6: every verdict belongs to a query that was encoded, and its
\* max_similarity is the maximum of that query's own similarities
C6_MaxSimilarityOfOwnRow ==
    Called =>
        \A i \in 1..Len(Verdicts) :
            /\ i <= Len(last.queries)
            /\ Verdicts[i].query = last.queries[i]
            /\ Keep(last.queries[i])
            /\ Verdicts[i].max_similarity =
                    OwnRowMax(last.queries[i], ContentTexts(last.content_chunks))

C6_Witness ==
    /\ Scored
    /\ Len(Verdicts) >= 2
    /\ Verdicts[1].max_similarity # Verdicts[2].max_similarity
    /\ Len(ContentTexts(last.content_chunks)) >= 2

NumAnswered == Cardinality({i \in 1..Len(Verdicts) : Verdicts[i].is_answered})

\* C7 as claimed: content_coverage is exactly 100 * answered / total
C7_CoverageExact ==
    Scored =>
        /\ last.report.queries_answered = NumAnswered
        /\ last.report.total_queries = Len(last.queries)
        /\ last.report.content_coverage * last.report.total_queries
                = 10000 * last.report.queries_answered

\* C7: queries_answered counts the answered verdicts, total_queries the
\* supplied queries, and content_coverage is 100 * answered / total rounded
\* to two decimals
C7_CoverageRounded ==
    Scored =>
        /\ last.report.queries_answered = NumAnswered
        /\ last.report.total_queries = Len(last.queries)
        /\ 2 * Abs(last.report.content_coverage * last.report.total_queries
                    - 10000 * last.report.queries_answered)
                <= last.report.total_queries

\* one query of three answered: 33.33
C7_Witness ==
    /\ Scored
    /\ last.report.total_queries = 3
    /\ last.report.queries_answered = 1
    /\ last.report.content_coverage = 3333

RECURSIVE SumOfConfidences(_)
SumOfConfidences(i) ==
    IF i > Len(Verdicts) THEN 0 ELSE Verdicts[i].confidence + SumOfConfidences(i + 1)

\* a single query whose vector is the vector of one of the chunks
IdenticalVectors ==
    /\ Len(last.queries) = 1
    /\ \E j \in 1..Len(ContentTexts(last.content_chunks)) :
            EmbedVec(Slice(strip(last.queries[1]), TextLimit))
                = EmbedVec(ContentTexts(last.content_chunks)[j])

IdenticalScenario ==
    (Scored /\ IdenticalVectors) =>
        /\ Verdicts[1].max_similarity = 100
        /\ Verdicts[1].is_answered
        /\ Verdicts[1].confidence = 100
        /\ last.report.overall_score = 10000

\* C8 as claimed: overall_score is exactly 100 times the mean confidence
C8_ScoreExact ==
    /\ Scored => last.report.overall_score * Len(last.queries)
                    = 100 * SumOfConfidences(1)
    /\ IdenticalScenario

\* C8: overall_score is 100 times the mean confidence over the supplied
\* queries, rounded to two decimals; identical vectors give 1.0, answered,
\* 1.0 and 100
C8_ScoreRounded ==
    /\ Scored => 2 * Abs(last.report.overall_score * Len(last.queries)
                            - 100 * SumOfConfidences(1))
                    <= Len(last.queries)
    /\ IdenticalScenario

\* three queries with confidences 1.0, 1.0 and 0.2: 73.33
C8_Witness ==
    /\ Scored
    /\ Len(last.queries) = 3
    /\ SumOfConfidences(1) = 220
    /\ last.report.overall_score = 7333

\* C9 as claimed: the same request twice in a row gets the same report
C9_SameRequestSameReport == rep.repeated => rep.same_report

\* C9: the same request twice in a row gets the same report when neither
\* report carries an error field
C9_SameRequestSameReportWithoutError ==
    (rep.repeated /\ rep.clean) => rep.same_report

C9_Witness ==
    /\ rep.repeated
    /\ rep.clean
    /\ Scored
    /\ Len(Verdicts) > 0
    /\ ~last.encodes[1].invoked
    /\ ~last.encodes[2].invoked

\* the similarities between a query and the content texts, each cleaned as
\* encode_texts cleans it
OwnRow(query, content_texts) ==
    [j \in 1..Len(content_texts) |->
        Cosine(EmbedVec(Slice(strip(query), TextLimit)),
               EmbedVec(Slice(strip(content_texts[j]), TextLimit)))]

\* f tells, for each entry of top_matches, the chunk it reports
ReportsChunks(top_matches, row, content_metadata, f) ==
    /\ \A k \in 1..Len(top_matches) : \A l \in 1..Len(top_matches) :
            f[k] = f[l] => k = l
    /\ \A k \in 1..Len(top_matches) :
            /\ top_matches[k].score = row[f[k]]
            /\ top_matches[k].content = content_metadata[f[k]].original_text
            /\ top_matches[k].type = content_metadata[f[k]].type
    /\ \A j \in 1..Len(row) :
            (\A k \in 1..Len(top_matches) : f[k] # j) =>
                \A k \in 1..Len(top_matches) : row[j] <= top_matches[k].score

\* C16: top_matches holds at most 3 entries, each with a score above 0.1,
\* in non-increasing score order; they report distinct chunks of the
\* query's row, and no chunk left out scores higher than a chunk reported
C16_TopMatchesAreTheBest ==
    Called =>
        \A i \in 1..Len(Verdicts) :
            LET top_matches == Verdicts[i].top_matches
                row == OwnRow(last.queries[i], ContentTexts(last.content_chunks))
            IN  /\ Len(top_matches) <= 3
                /\ \A k \in 1..Len(top_matches) : top_matches[k].score > 10
                /\ \A k \in 1..(Len(top_matches) - 1) :
                        top_matches[k].score >= top_matches[k + 1].score
                /\ \E f \in [1..Len(top_matches) -> 1..Len(row)] :
                        ReportsChunks(top_matches, row,
                                      ContentMetadata(last.content_chunks), f)

\* four chunks above 0.1, three of them reported; and a verdict whose list
\* is shorter because a score is not above 0.1
C16_Witness ==
    /\ Scored
    /\ \E i \in 1..Len(Verdicts) :
            /\ Len(Verdicts[i].top_matches) = 3
            /\ Verdicts[i].top_matches[1].score > Verdicts[i].top_matches[2].score
            /\ Len(ContentTexts(last.content_chunks)) > 3
            /\ \A j \in 1..Len(ContentTexts(last.content_chunks)) :
                    OwnRow(last.queries[i], ContentTexts(last.content_chunks))[j] > 10
    /\ \E i \in 1..Len(Verdicts) :
            Len(Verdicts[i].top_matches) < Len(ContentTexts(last.content_chunks))

\* C28 as claimed: among chunks of a row with equal scores the one with the
\* lower index is selected first and listed first: top_matches lists
\* equal-scoring chunks in index order, and a chunk left out has a higher
\* index than every reported chunk of the same score
C28_TiesFirstSeenFirst ==
    Called =>
        \A i \in 1..Len(Verdicts) :
            LET top_matches == Verdicts[i].top_matches
                row == OwnRow(last.queries[i], ContentTexts(last.content_chunks))
            IN  \E f \in [1..Len(top_matches) -> 1..Len(row)] :
                    /\ ReportsChunks(top_matches, row,
                                     ContentMetadata(last.content_chunks), f)
                    /\ \A k \in 1..Len(top_matches) : \A l \in 1..Len(top_matches) :
                            (k < l /\ top_matches[k].score = top_matches[l].score)
                                => f[k] < f[l]
                    /\ \A j \in 1..Len(row) : \A k \in 1..Len(top_matches) :
                            (row[j] = top_matches[k].score
                                /\ \A l \in 1..Len(top_matches) : f[l] # j)
                                => f[k] < j

\* C33 as claimed: in a verdict whose top_matches is not empty, best_match
\* is the preview reported by the first entry of top_matches
C33_BestMatchIsFirstTopMatch ==
    Called =>
        \A i \in 1..Len(Verdicts) :
            Len(Verdicts[i].top_matches) > 0 =>
                Verdicts[i].best_match = Verdicts[i].top_matches[1].content

\* the supplied query list holds an entry that encode_texts drops next to
\* one that it keeps
MixedQueries ==
    /\ \E i \in 1..Len(last.queries) : Keep(last.queries[i])
    /\ \E i \in 1..Len(last.queries) : ~Keep(last.queries[i])

\* C34: a report without an error field and with verdicts has one verdict
\* per supplied query, in the supplied order; a call whose query list mixes
\* dropped and kept entries returns no verdicts, and once it has issued the
\* encoding of the queries it returns an error report
C34_OneVerdictPerQuery ==
    Called =>
        /\ ("error" \notin DOMAIN last.report /\ Len(Verdicts) > 0) =>
                /\ Len(Verdicts) = Len(last.queries)
                /\ \A i \in 1..Len(Verdicts) : Verdicts[i].query = last.queries[i]
        /\ MixedQueries => Verdicts = <<>>
        /\ (MixedQueries /\ Len(last.encodes) > 0) =>
                /\ "error" \in DOMAIN last.report
                /\ last.failure # "none"

\* a list whose first query is blank: both batches were encoded, the loop
\* gave the blank query the row of the next one and then ran past the last
\* row
C34_Witness ==
    /\ Called
    /\ Len(last.queries) >= 2
    /\ ~Keep(last.queries[1])
    /\ Keep(last.queries[2])
    /\ last.failure = "scoring"
    /\ Len(last.encodes) = 2
    /\ ~last.encodes[1].raised /\ ~last.encodes[2].raised

\* the number of characters of a preview
PreviewLength(p) == len(p.text) + (IF p.ellipsis THEN EllipsisLen ELSE 0)

\* C17 as claimed: every preview in top_matches or best_match has at most
\* 200 characters
C17_PreviewAtMost200 ==
    Called =>
        \A i \in 1..Len(Verdicts) :
            /\ PreviewLength(Verdicts[i].best_match) <= 200
            /\ \A k \in 1..Len(Verdicts[i].top_matches) :
                    PreviewLength(Verdicts[i].top_matches[k].content) <= 200

\* p is the preview of the chunk text: the text itself up to 200
\* characters, else its first 200 characters followed by '...'
PreviewOf(p, text) ==
    IF len(text) > 200
    THEN p.ellipsis /\ p.text = Slice(text, 200) /\ PreviewLength(p) = 203
    ELSE ~p.ellipsis /\ p.text = text

PreviewOfSomeChunk(p) ==
    \E j \in 1..Len(last.content_chunks) :
        /\ Meaningful(last.content_chunks[j])
        /\ PreviewOf(p, last.content_chunks[j].text)

\* C17: every preview in top_matches or best_match has at most 203
\* characters: it is the chunk's text when that has at most 200 characters,
\* else the first 200 characters of the text followed by '...'
C17_PreviewAtMost203 ==
    Called =>
        \A i \in 1..Len(Verdicts) :
            /\ PreviewLength(Verdicts[i].best_match) <= 203
            /\ PreviewOfSomeChunk(Verdicts[i].best_match)
            /\ \A k \in 1..Len(Verdicts[i].top_matches) :
                    /\ PreviewLength(Verdicts[i].top_matches[k].content) <= 203
                    /\ PreviewOfSomeChunk(Verdicts[i].top_matches[k].content)

\* a chunk of 300 characters is the best match, one of 43 is also reported
C17_Witness ==
    /\ Scored
    /\ \E i \in 1..Len(Verdicts) :
            /\ Verdicts[i].best_match.ellipsis
            /\ PreviewLength(Verdicts[i].best_match) = 203
            /\ Len(Verdicts[i].top_matches) > 1
            /\ Verdicts[i].top_matches[1].content = Verdicts[i].best_match
            /\ PreviewLength(Verdicts[i].top_matches[2].content) = 43

\* the chunk has a string text of more than 10 characters after trimming
Survives(chunk) ==
    /\ chunk.dict /\ chunk.has_text /\ chunk.text.sym # "None"
    /\ len(strip(chunk.text)) > 10

Survivors == {j \in 1..Len(last.content_chunks) : Survives(last.content_chunks[j])}

\* the zero report with the 'no meaningful content' note, and nothing done
NoteAndNothingDone ==
    /\ last.report = ZeroReport(<<[rule |-> "no_content"]>>)
    /\ last.encodes = <<>>
    /\ ~last.changed

\* a completed analysis encoded exactly the surviving chunks
EncodedSurvivors ==
    Scored =>
        /\ last.report.analysis_metadata.content_chunks_analyzed = Cardinality(Survivors)
        /\ \E e \in 1..Len(cache) : Len(cache[e].value) = Cardinality(Survivors)
        /\ \A i \in 1..Len(Verdicts) : \A k \in 1..Len(Verdicts[i].top_matches) :
                \E j \in Survivors :
                    PreviewOf(Verdicts[i].top_matches[k].content, last.content_chunks[j].text)

\* C18 as claimed: only the surviving chunks are encoded, and whenever no
\* chunk survives the call returns the zero report with the note, without
\* an encode_texts call and without a change of the rate limiter
C18_NoSurvivorGivesNote ==
    Called =>
        /\ EncodedSurvivors
        /\ Survivors = {} => NoteAndNothingDone

\* C18: only the surviving chunks are encoded, and when the query list and
\* the chunk list are not empty and no chunk survives the call returns the
\* zero report with the note, without an encode_texts call and without a
\* change of the rate limiter
C18_NoSurvivorOfSomeGivesNote ==
    Called =>
        /\ EncodedSurvivors
        /\ (Len(last.queries) > 0 /\ Len(last.content_chunks) > 0 /\ Survivors = {})
                => NoteAndNothingDone

\* a single chunk of 10 characters between blanks
C18_Witness ==
    /\ Called
    /\ Len(last.queries) > 0
    /\ Len(last.content_chunks) = 1
    /\ last.content_chunks[1].text.sym # "None"
    /\ len(last.content_chunks[1].text) > 10
    /\ len(strip(last.content_chunks[1].text)) = 10
    /\ last.report.recommendations = <<[rule |-> "no_content"]>>
    /\ calls = [c \in Clients |-> <<>>]

\* an analyze_content_relevance call returns in this step
AnalyzeReturns == last' # last

\* the timestamps of the caller that a check at the present clock keeps
UnexpiredNow(identifier) ==
    SelectSeq(calls[identifier], LAMBDA call_time : now - call_time < window)

\* C22: a call makes at most two encode_texts calls, the second (the chunk
\* batch) only after the first (the queries) returned without raising; a
\* scoring stage is reached only after both returned; when the encoding of
\* the queries raises, that is the only encode_texts call, the cache is as
\* it was, and the rate limiter holds one new timestamp at most, that of
\* the query batch, and none when the query batch was denied
C22_EncodesInSequence ==
    [][AnalyzeReturns =>
        LET e == last'.encodes
            cid == last'.client_id
        IN  /\ Len(e) <= 2
            /\ Len(e) = 2 => ~e[1].raised
            /\ ("queries_answered" \in DOMAIN last'.report \/ last'.failure = "scoring") =>
                    Len(e) = 2 /\ ~e[1].raised /\ ~e[2].raised
            /\ last'.failure = "encode_queries" =>
                    /\ Len(e) = 1
                    /\ e[1].raised
                    /\ cache' = cache
                    /\ calls'[cid] = (IF e[1].error = RateLimitMsg
                                       THEN UnexpiredNow(cid)
                                       ELSE Append(UnexpiredNow(cid), now))]_vars

\* the query batch was denied by the rate limiter: one encode_texts call
C22_Witness ==
    /\ Called
    /\ last.failure = "encode_queries"
    /\ Len(last.encodes) = 1
    /\ last.encodes[1].error = RateLimitMsg
    /\ Len(calls[last.client_id]) = max_calls

\* the list of timestamps after an encode_texts call at time t: the unexpired
\* ones, and t when the call passed the rate check
AfterEncode(cs, e, t) ==
    LET kept == SelectSeq(cs, LAMBDA call_time : t - call_time < window)
    IN  IF e.error = RateLimitMsg THEN kept ELSE Append(kept, t)

\* C36: an analysis leaves, for its identifier, one timestamp for each of
\* its encode_texts calls that passed the rate check, whatever the call did
\* afterwards (cache hit, empty batch, failed load, failed Embedder), and
\* none for a denied one; the query encode keeps its slot when the chunk
\* encode is denied; other identifiers are not touched
C36_OneSlotPerAdmittedEncode ==
    [][AnalyzeReturns =>
        LET e == last'.encodes
            cid == last'.client_id
            first == AfterEncode(calls[cid], e[1], now)
        IN  /\ Len(e) = 0 => calls' = calls
            /\ Len(e) = 1 => calls'[cid] = first
            /\ Len(e) = 2 => calls'[cid] = AfterEncode(first, e[2], now')
            /\ \A other \in Clients \ {cid} : calls'[other] = calls[other]]_vars

\* an analysis whose query encode was admitted and whose chunk encode was
\* denied: the slot of the query encode is taken
C36_Witness ==
    /\ Called
    /\ Len(last.encodes) = 2
    /\ ~last.encodes[1].raised
    /\ last.encodes[2].error = RateLimitMsg
    /\ Len(calls[last.client_id]) = max_calls
    /\ calls[last.client_id][max_calls] = now

----------------------------------------------------------------------------
(* Properties of _generate_recommendations *)

RecRules == [k \in 1..Len(rec.recommendations) |-> rec.recommendations[k].rule]

RecHas(rule) == \E k \in 1..Len(RecRules) : RecRules[k] = rule

\* the place of a rule in the order of lines 304-325
RuleRank(rule) ==
    CASE rule = "low_coverage" -> 1
      [] rule = "unanswered" -> 2
      [] rule = "weak_matches" -> 3
      [] rule = "excellent" -> 4
      [] rule = "good" -> 4
      [] OTHER -> 0

RecUnanswered == {i \in 1..Len(rec.query_analysis) : ~rec.query_analysis[i].is_answered}

RecAnswered == {i \in 1..Len(rec.query_analysis) : rec.query_analysis[i].is_answered}

\* the k-th unanswered verdict, in the order of the list
NthUnanswered(k) ==
    CHOOSE i \in RecUnanswered : Cardinality({j \in RecUnanswered : j < i}) = k - 1

\* C15: the recommendations come in the order low coverage, unanswered
\* queries, weak matches, then excellent or else good coverage, each present
\* exactly when its own condition holds (coverage < 50; an unanswered query;
\* an answered query with confidence < 0.6; coverage >= 80; coverage in
\* [60, 80)); the unanswered message names the first 3 unanswered queries at
\* most, each cut to 50 characters; with no query answered the list is the
\* low-coverage flag followed by the unanswered message
C15_RulesInOrder ==
    rec.returned =>
        LET n == Len(rec.query_analysis)
            answered == Cardinality(RecAnswered)
        IN  /\ \A k \in 1..Len(RecRules) : RuleRank(RecRules[k]) > 0
            /\ \A k \in 1..(Len(RecRules) - 1) :
                    RuleRank(RecRules[k]) < RuleRank(RecRules[k + 1])
            /\ RecHas("low_coverage") <=> 100 * answered < 50 * n
            /\ RecHas("unanswered") <=> RecUnanswered # {}
            /\ RecHas("weak_matches") <=>
                    \E i \in RecAnswered : rec.query_analysis[i].confidence < 60
            /\ RecHas("excellent") <=> 100 * answered >= 80 * n
            /\ RecHas("good") <=> (100 * answered >= 60 * n /\ 100 * answered < 80 * n)
            /\ \A k \in 1..Len(RecRules) :
                    RecRules[k] = "unanswered" =>
                        LET named == rec.recommendations[k].queries
                        IN  /\ Len(named) = Min(3, Cardinality(RecUnanswered))
                            /\ \A j \in 1..Len(named) :
                                    /\ len(named[j]) <= 50
                                    /\ named[j] =
                                        Slice(rec.query_analysis[NthUnanswered(j)].query, 50)
            /\ answered = 0 => RecRules = <<"low_coverage", "unanswered">>

\* four unanswered queries, the first longer than 50 characters: three are
\* named, the first cut to 50
C15_Witness ==
    /\ rec.returned
    /\ Cardinality(RecUnanswered) = 4
    /\ rec.query_analysis[1].query = Qy
    /\ RecRules = <<"low_coverage", "unanswered">>
    /\ Len(rec.recommendations[2].queries) = 3
    /\ len(rec.recommendations[2].queries[1]) = 50

\* C32: an answered verdict has a confidence above 0.8, hence never below
\* 0.6, and _generate_recommendations never reports weak matches for the
\* verdicts of an analysis
C32_AnsweredIsConfident ==
    /\ \A i \in 1..Len(rec.query_analysis) :
            rec.query_analysis[i].is_answered => rec.query_analysis[i].confidence > 80
    /\ rec.returned => ~RecHas("weak_matches")

\* recommendations for verdicts one of which is answered just above the
\* threshold, with a confidence below 1.0, next to an unanswered one
C32_Witness ==
    /\ rec.returned
    /\ Len(rec.recommendations) > 0
    /\ \E i \in 1..Len(rec.query_analysis) :
            /\ rec.query_analysis[i].is_answered
            /\ rec.query_analysis[i].confidence = 90
    /\ \E i \in 1..Len(rec.query_analysis) :
            /\ ~rec.query_analysis[i].is_answered
            /\ rec.query_analysis[i].confidence = 80

----------------------------------------------------------------------------
(* Properties of encode_texts *)

\* C10 as claimed: a second call with the same cleaned batch returns the
\* first call's vectors and does not invoke the Embedder
C10_SecondCallFromCache ==
    encRep.repeated => encRep.same_value /\ ~encRep.invoked

\* C10: a call that follows a successful call with the same cleaned batch,
\* both with use_cache on, and that is not refused by the rate limiter,
\* returns the first call's vectors and does not invoke the Embedder
C10_SecondCachedCallFromCache ==
    (encRep.repeated /\ encRep.cached /\ ~encRep.raised) =>
        encRep.same_value /\ ~encRep.invoked

C10_Witness ==
    /\ encRep.repeated
    /\ encRep.cached
    /\ ~encRep.raised
    /\ Len(encLast.value) > 0

\* C11: the cache never holds more entries than its capacity; an insertion
\* that overflows the capacity removes exactly the EvictCount entries that
\* were inserted first, and the entries that stay are the most recently
\* inserted ones, the new entry last
C11_CacheBoundedFifo ==
    /\ Len(cache) <= CacheCapacity
    /\ ins.happened =>
            LET all == Append(ins.before, ins.key)
                removed == Len(all) - Len(ins.after)
            IN  /\ Len(ins.after) <= CacheCapacity
                /\ removed = (IF Len(all) > CacheCapacity THEN EvictCount ELSE 0)
                /\ ins.after = SubSeq(all, removed + 1, Len(all))
                /\ \A i \in 1..Len(ins.before) : ins.before[i] # ins.key

\* an insertion into a full cache: the oldest entries went, the others stayed
C11_Witness ==
    /\ ins.happened
    /\ Len(ins.before) = CacheCapacity
    /\ Len(ins.after) = CacheCapacity + 1 - EvictCount
    /\ ins.after[Len(ins.after)] = ins.key
    /\ Keys(cache) = ins.after

\* C24 as claimed: a call hits a cache entry exactly when its cleaned batch
\* is, string for string and in the same order, the cleaned batch of the
\* call that inserted the entry; batches that differ never share an entry
C24_SameEntryIffSameCleaned ==
    ins.looked =>
        /\ ins.hit <=> \E i \in 1..Len(ins.held) : ins.held[i] = ins.asked
        /\ ins.hit => ins.found = ins.asked

\* an encode_texts call returns or raises in this step
EncodeReturns == encLast' # encLast \/ encRep' # encRep

\* the last encode_texts call was given a batch that is empty once cleaned
EmptyBatch == encLast.called /\ encLast.cleaned = <<>>

\* the checks of a call with an empty batch touch neither the cache nor the
\* Embedder
EmptyBatchTouchesNothing ==
    /\ [](EmptyBatch => ~encRep.invoked /\ ~encRep.looked)
    /\ [][(EncodeReturns /\ EmptyBatch') => cache' = cache]_vars

\* C23 as claimed: a call whose batch is empty once cleaned returns an
\* empty vector batch, and neither looks into the cache, nor changes it, nor
\* invokes the Embedder
C23_EmptyBatchReturnsEmpty ==
    /\ [](EmptyBatch => encLast.completed /\ encLast.value = <<>>)
    /\ EmptyBatchTouchesNothing

\* C23: a call whose batch is empty once cleaned neither looks into the
\* cache, nor changes it, nor invokes the Embedder; it returns an empty
\* vector batch unless the rate limiter denied it or the model could not be
\* loaded
C23_EmptyBatchReturnsEmptyIfReached ==
    /\ [](EmptyBatch /\ encLast.completed => encLast.value = <<>>)
    /\ [][(EncodeReturns /\ EmptyBatch' /\ ~encLast'.completed) =>
            \/ model' = "None"
            \/ \E c \in ServiceClients : Len(calls'[c]) >= max_calls]_vars
    /\ EmptyBatchTouchesNothing

\* a batch of a blank string and a non-string, with the cache in use and
\* not empty
C23_Witness ==
    /\ EmptyBatch
    /\ encLast.completed
    /\ encLast.use_cache
    /\ encLast.value = <<>>
    /\ Len(cache) > 0

----------------------------------------------------------------------------
(* Properties of the coroutines *)

\* the coroutine is inside the retry loop of initialize()
InSequence(k) == tasks[k].pc \in {"loading", "backoff"}

Sequences == {k \in Tasks : InSequence(k)}

Builders == {k \in Tasks : tasks[k].built}

LoadErrors == {LoadError(a) : a \in 0..(retry_count - 1)}

\* the coroutine k calls initialize() in this step
Arrives(k) == tasks[k].pc = "idle" /\ tasks'[k].pc # "idle" /\ tasks'[k].error # RateLimitMsg

\* C12: at most one coroutine is inside the retry loop at any time; a
\* coroutine that calls initialize() while another one is inside the loop
\* starts no load attempt, in that step or later, and leaves its polling
\* loop only when no coroutine is inside the retry loop
C12_OneSequenceAtATime ==
    /\ [](Cardinality(Sequences) <= 1)
    /\ [](\A k \in Tasks : tasks[k].waited => tasks[k].loads = 0 /\ ~tasks[k].built)
    /\ [][\A k \in Tasks :
            /\ (Arrives(k) /\ Sequences # {}) =>
                    tasks'[k].pc = "polling" /\ tasks'[k].waited
            /\ (tasks[k].pc = "polling" /\ tasks'[k].outcome \in {"returned", "raised"}) =>
                    Sequences = {}]_vars

\* one coroutine loaded the model while another waited and then returned
C12_Witness ==
    \E j \in Tasks, k \in Tasks :
        /\ tasks[j].built
        /\ tasks[j].loads > 1
        /\ tasks[k].waited
        /\ tasks[k].outcome = "returned"
        /\ tasks[k].loads = 0

\* C13: a retry loop makes at most retry_count load attempts and none after
\* a success; when all fail, the error of the last attempt is raised to the
\* coroutine that ran the loop and the model is still None; a coroutine that
\* then calls initialize() starts with a first attempt of its own
C13_RetryThenRaiseLast ==
    /\ [](\A k \in Tasks :
            /\ tasks[k].loads <= retry_count
            /\ tasks[k].built =>
                    ~InSequence(k) /\ tasks[k].loads = tasks[k].attempt + 1
            /\ (tasks[k].outcome = "raised" /\ tasks[k].error \in LoadErrors) =>
                    /\ tasks[k].loads = retry_count
                    /\ tasks[k].error = LoadError(retry_count - 1)
                    /\ ~tasks[k].built)
    /\ [](model = "None" <=> Builders = {})
    /\ [][\A k \in Tasks :
            /\ (InSequence(k) /\ tasks'[k].error \in LoadErrors) => model' = "None"
            /\ (Arrives(k) /\ model = "None" /\ Sequences = {}) =>
                    /\ tasks'[k].pc = "loading"
                    /\ tasks'[k].attempt = 0
                    /\ tasks'[k].loads = 1]_vars

\* one coroutine failed retry_count times, a later one loaded the model at
\* its second attempt
C13_Witness ==
    \E j \in Tasks, k \in Tasks :
        /\ j < k
        /\ tasks[j].outcome = "raised"
        /\ tasks[j].error = LoadError(retry_count - 1)
        /\ tasks[j].loads = retry_count
        /\ tasks[k].built
        /\ tasks[k].loads = 2
        /\ ~tasks[k].waited

\* C14: the model is set by at most one coroutine; once set it stays set,
\* and no load attempt is started or running while it is set
C14_ModelSetOnce ==
    /\ [](Cardinality(Builders) <= 1)
    /\ [](model # "None" => Sequences = {})
    /\ [][model # "None" =>
            /\ model' = model
            /\ \A k \in Tasks : tasks'[k].loads = tasks[k].loads /\ ~InSequence(k)']_vars

\* the model was loaded, and initialize() and encode_texts were called after
C14_Witness ==
    /\ model = "loaded"
    /\ \E i \in Tasks, j \in Tasks, k \in Tasks :
        /\ tasks[i].built
        /\ tasks[j].kind = "initialize" /\ tasks[j].outcome = "returned"
        /\ tasks[j].loads = 0 /\ ~tasks[j].waited
        /\ tasks[k].kind = "encode_texts" /\ tasks[k].pc = "encoding"
        /\ tasks[k].loads = 0 /\ ~tasks[k].waited

\* the encode_texts call of coroutine k was denied by the rate limiter
Denied(k) == tasks[k].kind = "encode_texts" /\ ~tasks[k].admitted

\* C20: an encode_texts call that the rate limiter denies raises the
\* rate-limit error at once: it starts no load attempt and waits for none,
\* looks nothing up in the cache, submits nothing to the Embedder, and the
\* step leaves the model, the loading flag and the cache as they were; no
\* other call raises that error
C20_DeniedDoesNothing ==
    /\ [](\A k \in Tasks :
            /\ Denied(k) =>
                    /\ tasks[k].pc = "done"
                    /\ tasks[k].outcome = "raised"
                    /\ tasks[k].error = RateLimitMsg
                    /\ tasks[k].loads = 0
                    /\ ~tasks[k].waited
                    /\ ~tasks[k].built
                    /\ ~tasks[k].looked
                    /\ ~tasks[k].invoked
            /\ tasks[k].error = RateLimitMsg => Denied(k))
    /\ [][\A k \in Tasks :
            (~Denied(k) /\ Denied(k)') =>
                /\ model' = model
                /\ loading' = loading
                /\ cache' = cache
                /\ \E c \in Clients : Len(calls[c]) >= max_calls /\ calls' = calls]_vars

\* a call denied while the model is not loaded and its batch not cached
C20_Witness ==
    \E k \in Tasks :
        /\ Denied(k)
        /\ tasks[k].texts = <<Qx>>
        /\ model = "None"
        /\ ~loading
        /\ cache = <<>>

\* what str(e) of a failing encode may be
ErrorDetails == {"encode failed", "'NoneType' object has no attribute 'encode'"}

StartsWithEncodePrefix(msg) == \E d \in ErrorDetails : msg = EncodeErrorPrefix \o d

\* the Embedder call of coroutine k fails in this step
EmbedderFails(k) == tasks[k].pc = "encoding" /\ tasks'[k].outcome = "raised"

\* C21: when the Embedder fails, the call ends there: it raises an error
\* whose message starts with "Embedding generation failed", the cache is
\* left as it was, and the coroutine, which submitted its batch once, never
\* runs again
C21_EmbedderFailureRaisesOnce ==
    /\ [][\A k \in Tasks :
            EmbedderFails(k) =>
                /\ tasks[k].invoked
                /\ tasks'[k].pc = "done"
                /\ StartsWithEncodePrefix(tasks'[k].error)
                /\ tasks'[k].error = EncodeErrorMsg
                /\ cache' = cache]_vars
    /\ [][\A k \in Tasks : tasks[k].pc = "done" => tasks'[k] = tasks[k]]_vars
    /\ [][\A k \in Tasks :
            (tasks[k].invoked /\ tasks[k].pc # "encoding") => tasks'[k].pc # "encoding"]_vars

\* an Embedder failure on a batch that is not cached afterwards
C21_Witness ==
    \E k \in Tasks :
        /\ tasks[k].error = EncodeErrorMsg
        /\ tasks[k].invoked
        /\ model = "loaded"
        /\ ~CacheHas(cache, hash(CleanTexts(tasks[k].texts)))

\* C29 as claimed: a coroutine whose initialize() returned without raising
\* finds the model loaded, whether it ran the load or waited for another
\* coroutine's; an encode_texts call that reaches the Embedder invocation
\* has a loaded model and never fails for the lack of one
C29_ReturnMeansLoaded ==
    \A k \in Tasks :
        /\ (tasks[k].kind = "initialize" /\ tasks[k].outcome = "returned")
                => model = "loaded"
        /\ tasks[k].invoked => model = "loaded"
        /\ tasks[k].error # NoModelMsg

\* C30: _loading is true exactly in the states where one coroutine is
\* inside the retry loop of initialize(): no state has _loading true with no
\* sequence running, so a polling coroutine never waits on a flag nobody
\* will reset
C30_LoadingIffSequenceRuns ==
    /\ loading <=> Cardinality(Sequences) = 1
    /\ \A k \in Tasks : (tasks[k].pc = "polling" /\ loading) => Sequences # {}

\* the flag is down after a loader was cancelled and another one failed all
\* its attempts, while a third coroutine is still in its polling loop
C30_Witness ==
    \E i \in Tasks, j \in Tasks, k \in Tasks :
        /\ tasks[i].outcome = "cancelled" /\ tasks[i].loads > 0
        /\ tasks[j].outcome = "raised" /\ tasks[j].loads = retry_count
        /\ tasks[j].error \in LoadErrors
        /\ tasks[k].pc = "polling"
        /\ ~loading

\* the coroutine k is inside initialize(): loading, sleeping before its
\* next attempt, or in the polling loop
InInitialize(k) == tasks[k].pc \in {"polling", "loading", "backoff"}

\* C31: a coroutine inside initialize() eventually leaves it, by returning,
\* raising or being cancelled, whatever the other coroutines do; the one
\* that loads makes at most retry_count attempts
C31_InitializeTerminates ==
    /\ [](\A k \in Tasks : tasks[k].loads <= retry_count)
    /\ \A k \in Tasks : InInitialize(k) ~> ~InInitialize(k)

\* a coroutine left its polling loop and returned after the loader had
\* given up at its last attempt
C31_Witness ==
    \E j \in Tasks, k \in Tasks :
        /\ tasks[j].loads = retry_count
        /\ tasks[j].outcome = "raised"
        /\ tasks[k].waited
        /\ tasks[k].kind = "initialize"
        /\ tasks[k].outcome = "returned"
        /\ \A i \in Tasks : ~InInitialize(i)

\* the cleaned batch of the encode_texts call of coroutine k
BatchOf(k) == CleanTexts(tasks[k].texts)

\* the Embedder invocation of coroutine k did not end with an entry stored
Fruitless(k) == tasks[k].outcome \in {"raised", "cancelled"}

\* C35 as claimed: of two encode_texts calls that invoked the Embedder for
\* the same cleaned batch, one ended without storing an entry; two calls
\* never have the Embedder work on one batch at the same time
C35_InvokedOncePerBatch ==
    \A j \in Tasks, k \in Tasks :
        (j # k /\ tasks[j].invoked /\ tasks[k].invoked /\ BatchOf(j) = BatchOf(k))
            => Fruitless(j) \/ Fruitless(k)


\* the step in which coroutine k leaves encode_texts with an exception
EndsInError(k) == tasks[k].pc # "done" /\ tasks'[k].outcome = "raised"

\* the step in which coroutine k executes self._cache[cache_key] = embeddings
Stores(k) ==
    /\ tasks[k].pc = "encoding"
    /\ tasks[k].use_cache
    /\ tasks'[k].outcome = "returned"

\* C37: an encode_texts call that ends in an error leaves the cache as it
\* was; the cache changes only when a call whose Embedder invocation
\* succeeded stores its result; the result is stored under a key the cache
\* does not hold, so no stored entry is assigned again; and an entry that
\* stays in the cache keeps its value.
C37_EntriesOnlyInsertedOrEvicted ==
    [][/\ \A k \in Tasks : EndsInError(k) => cache' = cache
       /\ cache' # cache => \E k \in Tasks : Stores(k) /\ tasks[k].invoked
       /\ \A k \in Tasks : Stores(k) => ~CacheHas(cache, hash(BatchOf(k)))
       /\ \A i \in 1..Len(cache), j \in 1..Len(cache') :
              cache[i].key = cache'[j].key => cache[i].value = cache'[j].value]_vars

----------------------------------------------------------------------------
(* Properties of the RateLimiter *)

\* C2: no identifier has more than max_calls recorded calls whose
\* timestamps lie within a span shorter than the window
C2_AtMostMaxCallsPerWindow ==
    \A identifier \in Clients : \A s \in 0..MaxTime :
        Cardinality({i \in 1..Len(admitted[identifier]) :
                        /\ admitted[identifier][i] >= s
                        /\ admitted[identifier][i] < s + window}) <= max_calls

\* a full window, and the call after it refused
C2_Witness ==
    /\ rlLast.identifier # "none"
    /\ ~rlLast.allowed
    /\ Len(admitted[rlLast.identifier]) >= max_calls
    /\ \E s \in 0..MaxTime :
        Cardinality({i \in 1..Len(admitted[rlLast.identifier]) :
                        /\ admitted[rlLast.identifier][i] >= s
                        /\ admitted[rlLast.identifier][i] < s + window}) = max_calls

\* the last direct is_allowed call was for some identifier
Checked == rlLast.identifier # "none"

\* the recorded timestamp that is the first of the last max_calls admitted
\* calls of the identifier checked last
OldestOfLastAdmitted ==
    admitted[rlLast.identifier][Len(admitted[rlLast.identifier]) - max_calls + 1]

\* a denial comes less than one window after the oldest of the last
\* max_calls admitted calls: once the window has elapsed since that call
\* the identifier is admitted, whatever was denied meanwhile
DeniedOnlyWithinWindow ==
    (Checked /\ ~rlLast.allowed) =>
        /\ Len(admitted[rlLast.identifier]) >= max_calls
        /\ rlLast.at - OldestOfLastAdmitted < window

\* C19 as claimed: a check discards exactly the timestamps older than
\* now - window, one that is exactly one window old being kept and counted
C19_KeepsExactlyWindowOld ==
    /\ Checked =>
            calls[rlLast.identifier] =
                SelectSeq(admitted[rlLast.identifier],
                          LAMBDA call_time : call_time >= rlLast.at - window)
    /\ DeniedOnlyWithinWindow

\* C19: a check discards exactly the timestamps that are one window old or
\* older (call_time <= now - window) before it counts, so after max_calls
\* admitted calls the identifier is admitted again as soon as one window has
\* elapsed since the oldest of them, whatever was denied meanwhile
C19_DiscardsWindowOldAndOlder ==
    /\ Checked =>
            calls[rlLast.identifier] =
                SelectSeq(admitted[rlLast.identifier],
                          LAMBDA call_time : call_time > rlLast.at - window)
    /\ DeniedOnlyWithinWindow

\* max_calls calls admitted, and then a call admitted exactly one window
\* after the oldest of them, which is no longer recorded
C19_Witness ==
    /\ Checked
    /\ rlLast.allowed
    /\ Len(admitted[rlLast.identifier]) = max_calls + 1
    /\ rlLast.at = admitted[rlLast.identifier][1] + window
    /\ Len(calls[rlLast.identifier]) = max_calls
    /\ \E other \in Clients : other # rlLast.identifier /\ Len(admitted[other]) > 0

\* a direct is_allowed call returns False in this step
DeniedStep == rlLast' # rlLast /\ ~rlLast'.allowed

\* the timestamps of an identifier that have not expired at the clock's time
Unexpired(identifier) ==
    SelectSeq(calls[identifier], LAMBDA call_time : now - call_time < window)

\* the recorded timestamps of an identifier are the last ones of its
\* admitted calls
RecordedAreAdmitted(identifier) ==
    LET a == admitted[identifier]
        c == calls[identifier]
    IN  /\ Len(c) <= Len(a)
        /\ c = SubSeq(a, Len(a) - Len(c) + 1, Len(a))

\* C25: a denied is_allowed call leaves the identifier with exactly the
\* unexpired timestamps it held, and the others as they were; every
\* recorded timestamp is the timestamp of an admitted call, so a denial
\* adds nothing to what keeps the identifier blocked
C25_DeniedRecordsNothing ==
    /\ [][DeniedStep =>
            /\ calls'[rlLast'.identifier] = Unexpired(rlLast'.identifier)
            /\ \A other \in Clients \ {rlLast'.identifier} :
                    calls'[other] = calls[other]
            /\ admitted' = admitted]_vars
    /\ [](\A identifier \in Clients : RecordedAreAdmitted(identifier))

\* a denial that came later than every admitted call of its identifier, and
\* left the max_calls timestamps of the admitted calls
C25_Witness ==
    /\ Checked
    /\ ~rlLast.allowed
    /\ Len(calls[rlLast.identifier]) = max_calls
    /\ \A i \in 1..Len(calls[rlLast.identifier]) :
            calls[rlLast.identifier][i] < rlLast.at


\* how many admitted calls of the identifier are less than one window old
OwnRecent(identifier) ==
    Cardinality({i \in 1..Len(admitted[identifier]) :
                    now - admitted[identifier][i] < window})

\* C38: an is_allowed call for one identifier leaves the recorded
\* timestamps of every other identifier as they were, and its answer is
\* decided by the identifier's own admitted calls alone: it is admitted
\* exactly when fewer than max_calls of them are less than one window old
C38_IsolatedPerIdentifier ==
    [][rlLast' # rlLast =>
        /\ \A other \in Clients \ {rlLast'.identifier} :
                /\ calls'[other] = calls[other]
                /\ admitted'[other] = admitted[other]
        /\ rlLast'.allowed <=> OwnRecent(rlLast'.identifier) < max_calls]_vars

\* an identifier admitted up to its own limit at a time when another
\* identifier's window is full
C38_Witness ==
    /\ Checked
    /\ rlLast.allowed
    /\ rlLast.at = now
    /\ Len(calls[rlLast.identifier]) = max_calls
    /\ \E other \in Clients \ {rlLast.identifier} :
            /\ Len(calls[other]) = max_calls
            /\ \A i \in 1..max_calls : now - calls[other][i] < window

----------------------------------------------------------------------------
(* Properties of is_allowed under concurrent threads *)

NonDecreasing(seq) ==
    \A i, j \in 1..Len(seq) : i < j => seq[i] <= seq[j]

\* the threads between the with statement's entry and its exit
InCriticalSection ==
    {th \in Threads :
        threads[th].pc \in {"clock", "prune", "count", "append", "release"}}

\* C26: for every identifier the recorded timestamps, and the timestamps of
\* all its admitted calls, are in non-decreasing order in every state,
\* whatever the interleaving of the threads and of the clock's ticks
C26_TimestampsNonDecreasing ==
    \A identifier \in Clients :
        /\ NonDecreasing(calls[identifier])
        /\ NonDecreasing(admitted[identifier])

\* a thread that waits for the lock while another one, holding it, is about
\* to append a timestamp later than the one recorded before
C26_Witness ==
    \E th, other \in Threads :
        /\ threads[th].pc = "append"
        /\ threads[other].pc = "acquire"
        /\ threads[other].identifier = threads[th].identifier
        /\ Len(calls[threads[th].identifier]) > 0
        /\ calls[threads[th].identifier][1] < threads[th].t

\* every timestamp of an admitted call of the identifier is recorded or
\* has expired
NoneLost(identifier) ==
    LET a == admitted[identifier]
        c == calls[identifier]
    IN  /\ Len(c) <= Len(a)
        /\ c = SubSeq(a, Len(a) - Len(c) + 1, Len(a))
        /\ \A i \in 1..(Len(a) - Len(c)) : now - a[i] >= window

\* C27: at most one thread is between the entry and the exit of the with
\* statement, and it holds the lock; no timestamp of an admitted call is
\* lost; the calls admitted within one window are at most max_calls
C27_MutuallyExclusive ==
    /\ Cardinality(InCriticalSection) <= 1
    /\ \A th \in InCriticalSection : lock = th
    /\ \A identifier \in Clients :
        /\ NoneLost(identifier)
        /\ \A s \in 0..MaxTime :
                Cardinality({i \in 1..Len(admitted[identifier]) :
                                /\ admitted[identifier][i] >= s
                                /\ admitted[identifier][i] < s + window}) <= max_calls

\* threads called for one identifier at the same time: the window is full
\* of calls admitted at this very time, one thread is being refused and
\* another one waits for the lock
C27_Witness ==
    \E th, other \in Threads :
        /\ threads[th].pc = "release"
        /\ threads[th].result = "False"
        /\ threads[other].pc = "acquire"
        /\ threads[other].identifier = threads[th].identifier
        /\ Len(calls[threads[th].identifier]) = max_calls
        /\ \A i \in 1..max_calls : calls[threads[th].identifier][i] = threads[th].t

====
